---- MODULE Spec2Model ----
(***************************************************************************)
(* A model of mystic's symbolic constraint compiler (mystic/symbolic.py):  *)
(* the variable renamer, the two parsers, the function builders and the    *)
(* two composers.                                                          *)
(*                                                                         *)
(* Python strings are sequences of one-character strings.  Numbers are     *)
(* exact rationals <<numerator, denominator>>, which agree with Python's   *)
(* floats on the small dyadic values used here.                            *)
(***************************************************************************)
EXTENDS Integers, Sequences, FiniteSets, TLC

\* v bound to a name: F(v), with v evaluated once
Let(v, F(_)) == CHOOSE y \in {F(r) : r \in {v}} : TRUE

(***************************************************************************)
(* Python's str methods.                                                   *)
(***************************************************************************)
Digits == {"0", "1", "2", "3", "4", "5", "6", "7", "8", "9"}

Letters == {"a", "b", "c", "d", "e", "f", "g", "h", "i", "j", "k", "l", "m",
            "n", "o", "p", "q", "r", "s", "t", "u", "v", "w", "x", "y", "z",
            "_"}

Whitespace == {" ", "\n", "\t"}

DigitVal(c) ==
  CASE c = "0" -> 0 [] c = "1" -> 1 [] c = "2" -> 2 [] c = "3" -> 3
    [] c = "4" -> 4 [] c = "5" -> 5 [] c = "6" -> 6 [] c = "7" -> 7
    [] c = "8" -> 8 [] c = "9" -> 9

DigitChar(d) ==
  CASE d = 0 -> "0" [] d = 1 -> "1" [] d = 2 -> "2" [] d = 3 -> "3"
    [] d = 4 -> "4" [] d = 5 -> "5" [] d = 6 -> "6" [] d = 7 -> "7"
    [] d = 8 -> "8" [] d = 9 -> "9"

\* str(i) for an int i >= 0
RECURSIVE str_int(_)
str_int(i) == IF i < 10 THEN <<DigitChar(i)>>
              ELSE str_int(i \div 10) \o <<DigitChar(i % 10)>>

\* int(s) for a string of digits
RECURSIVE int_str(_)
int_str(s) == IF s = <<>> THEN 0
              ELSE 10 * int_str(SubSeq(s, 1, Len(s) - 1)) + DigitVal(s[Len(s)])

\* s[i:] (1-based, inclusive start)
str_from(s, i) == SubSeq(s, i, Len(s))

str_startswith(s, i, sub) ==
  /\ i + Len(sub) - 1 <= Len(s)
  /\ SubSeq(s, i, i + Len(sub) - 1) = sub

\* s.find(sub, i): the first position >= i where sub occurs, 0 for Python's -1
RECURSIVE str_find(_, _, _)
str_find(s, sub, i) ==
  IF i + Len(sub) - 1 > Len(s) THEN 0
  ELSE IF str_startswith(s, i, sub) THEN i
  ELSE str_find(s, sub, i + 1)

\* s.replace(old, new): every non-overlapping occurrence, left to right
RECURSIVE str_replace(_, _, _)
str_replace(s, old, new) ==
  IF old = <<>> THEN
    IF s = <<>> THEN new ELSE new \o <<s[1]>> \o str_replace(Tail(s), old, new)
  ELSE Let(str_find(s, old, 1), LAMBDA i :
    IF i = 0 THEN s
    ELSE SubSeq(s, 1, i - 1) \o new
         \o str_replace(str_from(s, i + Len(old)), old, new))

\* s.split(sep) for a non-empty sep
RECURSIVE str_split(_, _)
str_split(s, sep) ==
  Let(str_find(s, sep, 1), LAMBDA i :
    IF i = 0 THEN <<s>>
    ELSE <<SubSeq(s, 1, i - 1)>> \o str_split(str_from(s, i + Len(sep)), sep))

\* s.lstrip(chars), s.rstrip(chars), s.strip(chars)
RECURSIVE str_lstrip(_, _)
str_lstrip(s, chars) ==
  IF s # <<>> /\ s[1] \in chars THEN str_lstrip(Tail(s), chars) ELSE s

RECURSIVE str_rstrip(_, _)
str_rstrip(s, chars) ==
  IF s # <<>> /\ s[Len(s)] \in chars
  THEN str_rstrip(SubSeq(s, 1, Len(s) - 1), chars) ELSE s

str_strip(s, chars) == str_lstrip(str_rstrip(s, chars), chars)

\* s.splitlines(): no empty last line after a final line break
str_splitlines(s) ==
  IF s = <<>> THEN <<>>
  ELSE Let(str_split(s, <<"\n">>), LAMBDA parts :
    IF parts[Len(parts)] = <<>> THEN SubSeq(parts, 1, Len(parts) - 1) ELSE parts)

\* sep.join(parts)
RECURSIVE str_join(_, _)
str_join(sep, parts) ==
  IF parts = <<>> THEN <<>>
  ELSE IF Len(parts) = 1 THEN parts[1]
  ELSE parts[1] \o sep \o str_join(sep, Tail(parts))

Range(f) == {f[i] : i \in DOMAIN f}

\* list.index(item): position of the first element equal to item
list_index(l, item) == CHOOSE i \in DOMAIN l : l[i] = item /\ \A j \in 1..(i - 1) : l[j] # item

(***************************************************************************)
(* Numbers: exact rationals <<n, d>> with d > 0, in lowest terms.          *)
(***************************************************************************)
Abs(a) == IF a < 0 THEN -a ELSE a

RECURSIVE GCD(_, _)
GCD(a, b) == IF b = 0 THEN a ELSE GCD(b, a % b)

Rat(n, d) ==
  Let(IF d < 0 THEN -GCD(Abs(n), Abs(d)) ELSE GCD(Abs(n), Abs(d)), LAMBDA g :
    <<n \div g, d \div g>>)

RInt(i) == <<i, 1>>
RAdd(a, b) == Rat(a[1] * b[2] + b[1] * a[2], a[2] * b[2])
RSub(a, b) == Rat(a[1] * b[2] - b[1] * a[2], a[2] * b[2])
RMul(a, b) == Rat(a[1] * b[1], a[2] * b[2])
RDiv(a, b) == Rat(a[1] * b[2], a[2] * b[1])
RNeg(a) == <<-a[1], a[2]>>
RLe(a, b) == a[1] * b[2] <= b[1] * a[2]
RLt(a, b) == a[1] * b[2] < b[1] * a[2]
RMax(a, b) == IF RLt(a, b) THEN b ELSE a
RMin(a, b) == IF RLt(b, a) THEN b ELSE a
Zero == RInt(0)

(***************************************************************************)
(* Python's eval of an expression text on a point x (a sequence of         *)
(* numbers, x[0] being the first), for the expressions the parsers emit    *)
(* from the constraint lines used here: numbers, x[i], + - * /, unary -,   *)
(* parentheses, max(a, b), min(a, b).  Any other name is unbound.  The     *)
(* module imports division from __future__, so that / is true division.   *)
(* A result is [p, v, e]: p the position after what was read (0: the text  *)
(* is not an expression, which Python reports before evaluating anything), *)
(* v the value, e the first error raised while evaluating ("" for none).   *)
(***************************************************************************)
SyntaxFail == [p |-> 0, v |-> Zero, e |-> "SyntaxError"]

RECURSIVE py_skip(_, _)
py_skip(s, p) == IF p <= Len(s) /\ s[p] \in Whitespace THEN py_skip(s, p + 1) ELSE p

\* the end of the run of characters of `chars` that starts at p
RECURSIVE py_span(_, _, _)
py_span(s, p, chars) ==
  IF p <= Len(s) /\ s[p] \in chars THEN py_span(s, p + 1, chars) ELSE p

RECURSIVE pow10(_)
pow10(k) == IF k = 0 THEN 1 ELSE 10 * pow10(k - 1)

\* a number literal: digits, then optionally '.' and digits
py_number(s, p) ==
  Let(py_span(s, p, Digits), LAMBDA q :
    IF q <= Len(s) /\ s[q] = "."
    THEN Let(py_span(s, q + 1, Digits), LAMBDA r :
           [p |-> r, e |-> "",
            v |-> RAdd(RInt(int_str(SubSeq(s, p, q - 1))),
                       Rat(int_str(SubSeq(s, q + 1, r - 1)), pow10(r - q - 1)))])
    ELSE [p |-> q, e |-> "", v |-> RInt(int_str(SubSeq(s, p, q - 1)))])

\* the first error in evaluation order
py_first(a, b, own) == IF a.e # "" THEN a.e ELSE IF b.e # "" THEN b.e ELSE own

py_binop(op, a, b) ==
  [p |-> b.p,
   v |-> CASE op = "+" -> RAdd(a.v, b.v)
           [] op = "-" -> RSub(a.v, b.v)
           [] op = "*" -> RMul(a.v, b.v)
           [] op = "/" -> IF b.v[1] = 0 THEN Zero ELSE RDiv(a.v, b.v)
           [] op = "max" -> RMax(a.v, b.v)
           [] op = "min" -> RMin(a.v, b.v),
   e |-> py_first(a, b, IF op = "/" /\ b.v[1] = 0 THEN "ZeroDivisionError" ELSE "")]

\* x[i] after 'x' '[' at r: the index is a literal here
py_item(s, r, x) ==
  Let(py_span(s, r + 1, Digits), LAMBDA d :
    IF d = r + 1 \/ d > Len(s) \/ s[d] # "]" THEN SyntaxFail
    ELSE Let(int_str(SubSeq(s, r + 1, d - 1)), LAMBDA i :
      IF i + 1 \in DOMAIN x THEN [p |-> d + 1, v |-> x[i + 1], e |-> ""]
      ELSE [p |-> d + 1, v |-> Zero, e |-> "IndexError"]))

\* The grammar, lowest precedence first: a sum of terms, a product of
\* factors, a factor with its sign, an atom.  level is 1 for a sum, 2 for
\* a product, 3 for a factor.
RECURSIVE py_parse(_, _, _, _), py_rest(_, _, _, _)

\* after an opening parenthesis: n expressions between commas, and ')'
py_args(s, p, x, name) ==
  Let(py_parse(s, p, x, 1), LAMBDA a :
    IF a.p = 0 THEN SyntaxFail
    ELSE Let(py_skip(s, a.p), LAMBDA c :
      IF c > Len(s) THEN SyntaxFail
      ELSE IF name = <<>> THEN
        IF s[c] = ")" THEN [a EXCEPT !.p = c + 1] ELSE SyntaxFail
      ELSE IF s[c] # "," THEN SyntaxFail
      ELSE Let(py_parse(s, c + 1, x, 1), LAMBDA b :
        IF b.p = 0 THEN SyntaxFail
        ELSE Let(py_skip(s, b.p), LAMBDA d :
          IF d > Len(s) \/ s[d] # ")" THEN SyntaxFail
          ELSE [py_binop(IF name = <<"m", "a", "x">> THEN "max" ELSE "min", a, b)
                  EXCEPT !.p = d + 1]))))

py_atom(s, p, x) ==
  IF p > Len(s) THEN SyntaxFail
  ELSE IF s[p] = "(" THEN py_args(s, p + 1, x, <<>>)
  ELSE IF s[p] \in Digits THEN py_number(s, p)
  ELSE IF s[p] \in Letters THEN
    Let(py_span(s, p, Letters \cup Digits), LAMBDA q :
      Let(py_skip(s, q), LAMBDA r :
        IF SubSeq(s, p, q - 1) = <<"x">> THEN
          IF r <= Len(s) /\ s[r] = "[" THEN py_item(s, r, x)
          ELSE [p |-> q, v |-> Zero, e |-> "TypeError"]
        ELSE IF /\ SubSeq(s, p, q - 1) \in {<<"m", "a", "x">>, <<"m", "i", "n">>}
                /\ r <= Len(s) /\ s[r] = "("
          THEN py_args(s, r + 1, x, SubSeq(s, p, q - 1))
        ELSE [p |-> q, v |-> Zero, e |-> "NameError"]))
  ELSE SyntaxFail

py_parse(s, p, x, level) ==
  IF level = 3 THEN
    Let(py_skip(s, p), LAMBDA q :
      IF q <= Len(s) /\ s[q] = "-"
      THEN Let(py_parse(s, q + 1, x, 3), LAMBDA f :
             IF f.p = 0 THEN f ELSE [f EXCEPT !.v = RNeg(f.v)])
      ELSE py_atom(s, q, x))
  ELSE Let(py_parse(s, p, x, level + 1), LAMBDA t :
         IF t.p = 0 THEN t ELSE py_rest(s, t, x, level))

\* the operators of this level that follow what has been read
py_rest(s, acc, x, level) ==
  Let(py_skip(s, acc.p), LAMBDA q :
    IF q <= Len(s) /\ s[q] \in (IF level = 1 THEN {"+", "-"} ELSE {"*", "/"})
    THEN Let(py_parse(s, q + 1, x, level + 1), LAMBDA r :
           IF r.p = 0 THEN r ELSE py_rest(s, py_binop(s[q], acc, r), x, level))
    ELSE acc)

\* eval(text) with the point bound to x: [e |-> error or "", v |-> value]
py_eval(text, x) ==
  Let(py_parse(text, 1, x, 1), LAMBDA r :
    IF r.p = 0 \/ py_skip(text, r.p) # Len(text) + 1
    THEN [e |-> "SyntaxError", v |-> Zero]
    ELSE [e |-> r.e, v |-> r.v])

(***************************************************************************)
(* Arguments that are either a string or a list of strings, and None.      *)
(***************************************************************************)
Str(s) == [t |-> "str", v |-> s]
List(l) == [t |-> "list", v |-> l]
Tuple(l) == [t |-> "tuple", v |-> l]
list_or_tuple_or_ndarray(a) == a.t \in {"list", "tuple"}
None == -1

(***************************************************************************)
(* replace_variables(constraints, variables, markers), markers a string.   *)
(***************************************************************************)
\* variablescopy.sort(comparator): by decreasing length, stable
RECURSIVE sort_insert(_, _)
sort_insert(sorted, item) ==
  IF sorted = <<>> THEN <<item>>
  ELSE IF Len(sorted[Len(sorted)]) >= Len(item) THEN Append(sorted, item)
  ELSE Append(sort_insert(SubSeq(sorted, 1, Len(sorted) - 1), item), sorted[Len(sorted)])

RECURSIVE sort_by_length(_)
sort_by_length(l) ==
  IF l = <<>> THEN <<>>
  ELSE sort_insert(sort_by_length(SubSeq(l, 1, Len(l) - 1)), l[Len(l)])

InternalMarker == <<"_", "$", "$", "$", "$", "$", "$", "$", "$", "$", "$">>

\* for i in indices: constraints = constraints.replace(variables[i], marker + str(i))
RECURSIVE replace_each(_, _, _, _)
replace_each(constraints, variables, indices, marker) ==
  IF indices = <<>> THEN constraints
  ELSE replace_each(
         str_replace(constraints, variables[indices[1]],
                     marker \o str_int(indices[1] - 1)),
         variables, Tail(indices), marker)

replace_variables(constraints, variables, markers) ==
  Let(sort_by_length(variables), LAMBDA variablescopy :
    Let(IF markers \in Range(variables) THEN InternalMarker ELSE markers, LAMBDA marker :
      str_replace(
        replace_each(constraints, variables,
                     [k \in DOMAIN variablescopy |-> list_index(variables, variablescopy[k])],
                     marker),
        marker, markers)))

(***************************************************************************)
(* get_variables(constraints, variables), variables a base string.         *)
(***************************************************************************)
\* re.findall(base + '[0-9]+', equation) for a base of ordinary characters;
\* '$' in a pattern matches only at the end of the text, so that with the
\* base '$' nothing is found
RECURSIVE re_findall(_, _, _)
re_findall(base, equation, i) ==
  IF "$" \in Range(base) \/ i > Len(equation) THEN <<>>
  ELSE Let(py_span(equation, i + Len(base), Digits), LAMBDA e :
    IF str_startswith(equation, i, base) /\ e > i + Len(base)
    THEN <<SubSeq(equation, i, e - 1)>> \o re_findall(base, equation, e)
    ELSE re_findall(base, equation, i + 1))

RECURSIVE append_new(_, _)
append_new(varnamelist, found) ==
  IF found = <<>> THEN varnamelist
  ELSE append_new(IF found[1] \in Range(varnamelist) THEN varnamelist
                  ELSE Append(varnamelist, found[1]), Tail(found))

RECURSIVE get_variables_lines(_, _, _)
get_variables_lines(equation_list, base, varnamelist) ==
  IF equation_list = <<>> THEN varnamelist
  ELSE get_variables_lines(Tail(equation_list), base,
         append_new(varnamelist, re_findall(base, equation_list[1], 1)))

get_variables(constraints, base) ==
  get_variables_lines(str_splitlines(constraints), base, <<>>)

(***************************************************************************)
(* replace_variables with a list of replacement names, get_variables with  *)
(* a list of candidate names: both go through the marker '_'.  A result is *)
(* [e, v]: the exception raised ("" for none) and the value returned.      *)
(***************************************************************************)
\* numpy.sort(indices): the list in increasing order
numpy_sort(l) ==
  [k \in DOMAIN l |->
     CHOOSE v \in Range(l) : /\ Cardinality({j \in DOMAIN l : l[j] < v}) < k
                             /\ k <= Cardinality({j \in DOMAIN l : l[j] <= v})]

\* indices = [int(v.strip('_')) for v in vars]
marker_indices(found) == [k \in DOMAIN found |-> int_str(str_strip(found[k], {"_"}))]

\* for i in range(len(vars)): equations = equations.replace(vars[i], markers[indices[i]])
RECURSIVE replace_markers(_, _, _, _)
replace_markers(equations, found, indices, markers) ==
  IF found = <<>> THEN equations
  ELSE replace_markers(str_replace(equations, found[1], markers[indices[1] + 1]),
                       Tail(found), Tail(indices), markers)

\* replace_variables, markers a string or a list of replacement names
replace_variables_call(constraints, variables, markers) ==
  IF ~list_or_tuple_or_ndarray(markers)
  THEN [e |-> "", v |-> replace_variables(constraints, variables, markers.v)]
  ELSE Let(replace_variables(constraints, variables, <<"_">>), LAMBDA equations :
    Let(get_variables(equations, <<"_">>), LAMBDA found :
      IF \E k \in DOMAIN found : marker_indices(found)[k] >= Len(markers.v)
      THEN [e |-> "IndexError", v |-> <<>>]
      ELSE [e |-> "",
            v |-> replace_markers(equations, found, marker_indices(found), markers.v)]))

\* get_variables, variables a base string or a list of candidate names
get_variables_call(constraints, variables) ==
  IF ~list_or_tuple_or_ndarray(variables)
  THEN [e |-> "", v |-> get_variables(constraints, variables.v)]
  ELSE Let(marker_indices(get_variables(
             replace_variables(constraints, variables.v, <<"_">>), <<"_">>)),
           LAMBDA indices :
    IF \E k \in DOMAIN indices : indices[k] >= Len(variables.v)
    THEN [e |-> "IndexError", v |-> <<>>]
    ELSE [e |-> "",
          v |-> [k \in DOMAIN indices |-> variables.v[numpy_sort(indices)[k] + 1]]])

(***************************************************************************)
(* What penalty_parser and constraints_parser share: the variable scheme   *)
(* and dimension, and the rewriting of a line's variables to x[i].         *)
(***************************************************************************)
RECURSIVE seq_max(_)
seq_max(l) == IF Len(l) = 1 THEN l[1]
              ELSE Let(seq_max(Tail(l)), LAMBDA m : IF l[1] > m THEN l[1] ELSE m)

\* ndim as inferred from the variables found: the largest index, plus one
infer_ndim(myvar, varname) ==
  IF myvar = <<>> THEN 0
  ELSE seq_max([k \in DOMAIN myvar |-> int_str(str_strip(myvar[k], Range(varname)))]) + 1

\* [constraints, varname, ndim] as set up before the lines are parsed
parser_setup(constraints, variables, nvars) ==
  IF list_or_tuple_or_ndarray(variables) THEN
    Let(IF nvars # None /\ nvars < Len(variables.v)
        THEN SubSeq(variables.v, 1, nvars) ELSE variables.v, LAMBDA vs :
      [constraints |-> replace_variables(constraints, vs, <<"$">>),
       varname |-> <<"$">>,
       ndim |-> IF nvars # None THEN nvars ELSE Len(vs)])
  ELSE
    Let(infer_ndim(get_variables(constraints, variables.v), variables.v), LAMBDA ndim :
      [constraints |-> constraints,
       varname |-> variables.v,
       ndim |-> IF nvars # None THEN nvars ELSE ndim])

\* the indices taken from low to high
RECURSIVE fix_variables_ascending(_, _, _)
fix_variables_ascending(fixed, varname, ndim) ==
  IF ndim = 0 THEN fixed
  ELSE str_replace(fix_variables_ascending(fixed, varname, ndim - 1),
                   varname \o str_int(ndim - 1),
                   <<"x", "[">> \o str_int(ndim - 1) \o <<"]">>)

\* for i in reversed(range(ndim)): fixed = fixed.replace(varname + str(i), 'x[i]')
RECURSIVE fix_variables(_, _, _)
fix_variables(fixed, varname, ndim) ==
  IF ndim = 0 THEN fixed
  ELSE fix_variables(
         str_replace(fixed, varname \o str_int(ndim - 1),
                     <<"x", "[">> \o str_int(ndim - 1) \o <<"]">>),
         varname, ndim - 1)

\* for each pair: if constraint.find(old) != -1: constraint = constraint.replace(old, new)
RECURSIVE rename_calls(_, _)
rename_calls(constraint, pairs) ==
  IF pairs = <<>> THEN constraint
  ELSE rename_calls(str_replace(constraint, pairs[1][1], pairs[1][2]), Tail(pairs))

\* the split of a line on '>', else '<', else '=': [split, direction]
RECURSIVE split_relation(_, _)
split_relation(constraint, directions) ==
  Let(str_split(constraint, <<directions[1]>>), LAMBDA split :
    IF Len(split) # 1 \/ Len(directions) = 1
    THEN [split |-> split, direction |-> directions[1]]
    ELSE split_relation(constraint, Tail(directions)))

\* eqn = {'lhs': split[0].rstrip('=').strip(), 'rhs': split[-1].lstrip('=').strip()}
eqn_of(split) ==
  [lhs |-> str_strip(str_rstrip(split[1], {"="}), Whitespace),
   rhs |-> str_strip(str_lstrip(split[Len(split)], {"="}), Whitespace)]

nonblank_lines(constraints) ==
  SelectSeq(str_splitlines(constraints), LAMBDA line : str_strip(line, Whitespace) # <<>>)

expressions(ls) == [k \in DOMAIN ls |-> ls[k].expression]

\* what is printed: 'Invalid constraint: ' and the constraint, per invalid line
printed_of(ls) ==
  Let(SelectSeq(ls, LAMBDA l : l.invalid), LAMBDA bad :
    [k \in DOMAIN bad |-> bad[k].constraint])

(***************************************************************************)
(* penalty_parser(constraints, variables, nvars)                           *)
(***************************************************************************)
penalty_renames ==
  << <<<<"s", "p", "r", "e", "a", "d", "(">>, <<"p", "t", "p", "(">>>>,
     <<<<"m", "e", "a", "n", "(">>, <<"a", "v", "e", "r", "a", "g", "e", "(">>>>,
     <<<<"v", "a", "r", "i", "a", "n", "c", "e", "(">>, <<"v", "a", "r", "(">>>> >>

\* the line with the expression of a '>' left as it is for a '<'
penalty_line_unsigned(line, varname, ndim) ==
  Let(rename_calls(str_strip(fix_variables(line, varname, ndim), Whitespace),
                   penalty_renames), LAMBDA constraint :
    Let(split_relation(constraint, <<">", "<", "=">>), LAMBDA r :
      Let(eqn_of(r.split), LAMBDA eqn :
        [invalid |-> Len(r.split) = 1,
         constraint |-> constraint,
         direction |-> r.direction,
         expression |-> eqn.lhs \o <<" ", "-", " ", "(">> \o eqn.rhs \o <<")">>])))

\* one non-blank line: the constraint as rewritten, whether it was reported
\* invalid, the direction, and the expression appended
penalty_line(line, varname, ndim) ==
  Let(rename_calls(str_strip(fix_variables(line, varname, ndim), Whitespace),
                   penalty_renames), LAMBDA constraint :
    Let(split_relation(constraint, <<">", "<", "=">>), LAMBDA r :
      Let(eqn_of(r.split), LAMBDA eqn :
        Let(eqn.lhs \o <<" ", "-", " ", "(">> \o eqn.rhs \o <<")">>, LAMBDA expression :
          [invalid |-> Len(r.split) = 1,
           constraint |-> constraint,
           direction |-> r.direction,
           expression |-> IF r.direction = ">"
                          THEN <<"-", "(">> \o expression \o <<")">>
                          ELSE expression]))))

\* the parser with its two tuples exchanged
penalty_parser_exchanged(constraints, variables, nvars) ==
  Let(parser_setup(constraints, variables, nvars), LAMBDA s :
    Let(nonblank_lines(s.constraints), LAMBDA lines :
      Let([k \in DOMAIN lines |-> penalty_line(lines[k], s.varname, s.ndim)], LAMBDA ls :
        [ineq |-> expressions(SelectSeq(ls, LAMBDA l : l.direction = "=")),
         eq |-> expressions(SelectSeq(ls, LAMBDA l : l.direction # "=")),
         printed |-> printed_of(ls)])))

\* [ineq, eq]: the two tuples returned; printed: what was printed
penalty_parser(constraints, variables, nvars) ==
  Let(parser_setup(constraints, variables, nvars), LAMBDA s :
    Let(nonblank_lines(s.constraints), LAMBDA lines :
      Let([k \in DOMAIN lines |-> penalty_line(lines[k], s.varname, s.ndim)], LAMBDA ls :
        [ineq |-> expressions(SelectSeq(ls, LAMBDA l : l.direction # "=")),
         eq |-> expressions(SelectSeq(ls, LAMBDA l : l.direction = "=")),
         printed |-> printed_of(ls)])))

(***************************************************************************)
(* constraints_parser(constraints, variables, nvars)                       *)
(***************************************************************************)
constraints_renames ==
  << <<<<"p", "t", "p", "(">>, <<"s", "p", "r", "e", "a", "d", "(">>>>,
     <<<<"a", "v", "e", "r", "a", "g", "e", "(">>, <<"m", "e", "a", "n", "(">>>>,
     <<<<"v", "a", "r", "(">>, <<"v", "a", "r", "i", "a", "n", "c", "e", "(">>>>,
     <<<<"p", "r", "o", "d", "(">>, <<"p", "r", "o", "d", "u", "c", "t", "(">>>> >>

impose_names == <<<<"s", "p", "r", "e", "a", "d">>, <<"m", "e", "a", "n">>, <<"v", "a", "r", "i", "a", "n", "c", "e">>, <<"s", "u", "m">>, <<"p", "r", "o", "d", "u", "c", "t">>>>

\* the wrapper of the first aggregate used for every aggregate
impose_unmatched(lr, names) ==
  IF \A k \in DOMAIN names : str_find(lr.lhs, names[k] \o <<"(">>, 1) = 0 THEN lr
  ELSE Let(str_split(lr.lhs,
                     names[CHOOSE k \in DOMAIN names :
                             str_find(lr.lhs, names[k] \o <<"(">>, 1) # 0]),
           LAMBDA parts :
         [lhs |-> parts[Len(parts)],
          rhs |-> <<" ", "i", "m", "p", "o", "s", "e", "_">> \o names[1] \o <<"(", " ", "(">>
                  \o str_lstrip(lr.rhs, Whitespace) \o <<")", ",">>
                  \o parts[Len(parts)] \o <<")">>])

\* if lhs.find(name + '(') != -1: lhs = lhs.split(name)[-1];
\*   rhs = ' impose_name( (' + rhs.lstrip() + '),' + lhs + ')'
RECURSIVE impose(_, _)
impose(lr, names) ==
  IF names = <<>> THEN lr
  ELSE IF str_find(lr.lhs, names[1] \o <<"(">>, 1) = 0 THEN impose(lr, Tail(names))
  ELSE Let(str_split(lr.lhs, names[1]), LAMBDA parts :
    impose([lhs |-> parts[Len(parts)],
            rhs |-> <<" ", "i", "m", "p", "o", "s", "e", "_">> \o names[1] \o <<"(", " ", "(">>
                    \o str_lstrip(lr.rhs, Whitespace) \o <<")", ",">>
                    \o parts[Len(parts)] \o <<")">>],
           Tail(names)))

\* the templates with min and max exchanged
solver_template_swapped(direction, eqn) ==
  IF direction = "=" THEN eqn.lhs \o <<" ", "=", " ">> \o eqn.rhs
  ELSE eqn.lhs \o <<" ", "=", " ">> \o (IF direction = ">" THEN <<"m", "i", "n">> ELSE <<"m", "a", "x">>)
       \o <<"(">> \o eqn.rhs \o <<",", " ">> \o eqn.lhs \o <<")">>

\* expression % eqn, for the template the direction selects
solver_template(direction, eqn) ==
  IF direction = "=" THEN eqn.lhs \o <<" ", "=", " ">> \o eqn.rhs
  ELSE eqn.lhs \o <<" ", "=", " ">> \o (IF direction = ">" THEN <<"m", "a", "x">> ELSE <<"m", "i", "n">>)
       \o <<"(">> \o eqn.rhs \o <<",", " ">> \o eqn.lhs \o <<")">>

\* one non-blank line; err is "ValueError" when expression.split('=') does
\* not give the two parts that lhs,rhs unpacks
constraints_line(line, varname, ndim) ==
  Let(rename_calls(str_strip(fix_variables(line, varname, ndim), Whitespace),
                   constraints_renames), LAMBDA constraint :
    Let(split_relation(constraint, <<">", "<", "=">>), LAMBDA r :
      Let(str_split(solver_template(r.direction, eqn_of(r.split)), <<"=">>), LAMBDA parts :
        IF Len(parts) # 2
        THEN [invalid |-> Len(r.split) = 1, constraint |-> constraint,
              err |-> "ValueError", expression |-> <<>>]
        ELSE Let(impose([lhs |-> parts[1], rhs |-> parts[2]], impose_names), LAMBDA lr :
          [invalid |-> Len(r.split) = 1, constraint |-> constraint,
           err |-> "", expression |-> lr.lhs \o <<"=">> \o lr.rhs]))))

\* the position of the first line that raises, 0 for none
first_error(ls) ==
  IF \A k \in DOMAIN ls : ls[k].err = "" THEN 0
  ELSE CHOOSE k \in DOMAIN ls : ls[k].err # "" /\ \A j \in 1..(k - 1) : ls[j].err = ""

\* the parser returning its assignments last line first
constraints_parser_reversed(constraints, variables, nvars) ==
  Let(parser_setup(constraints, variables, nvars), LAMBDA s :
    Let(nonblank_lines(s.constraints), LAMBDA lines :
      Let([k \in DOMAIN lines |-> constraints_line(lines[k], s.varname, s.ndim)], LAMBDA ls :
        Let(first_error(ls), LAMBDA bad :
          IF bad = 0
          THEN [parsed |-> [k \in DOMAIN ls |-> ls[Len(ls) + 1 - k].expression], err |-> "",
                printed |-> printed_of(ls)]
          ELSE [parsed |-> <<>>, err |-> "ValueError",
                printed |-> printed_of(SubSeq(ls, 1, bad))]))))

\* parsed: the tuple returned; err: the exception raised instead, if any;
\* printed: what was printed up to there
constraints_parser(constraints, variables, nvars) ==
  Let(parser_setup(constraints, variables, nvars), LAMBDA s :
    Let(nonblank_lines(s.constraints), LAMBDA lines :
      Let([k \in DOMAIN lines |-> constraints_line(lines[k], s.varname, s.ndim)], LAMBDA ls :
        Let(first_error(ls), LAMBDA bad :
          IF bad = 0
          THEN [parsed |-> expressions(ls), err |-> "", printed |-> printed_of(ls)]
          ELSE [parsed |-> <<>>, err |-> "ValueError",
                printed |-> printed_of(SubSeq(ls, 1, bad))]))))

(***************************************************************************)
(* generate_conditions and generate_solvers.  A built function is          *)
(* [t, name, doc, i]: its __name__, its __doc__ (the equation its body     *)
(* evaluates when called), and its position in its container.              *)
(***************************************************************************)
\* a build that also evaluates the equation (what follows its '=', for a
\* solver) once, on a point of zeros
compile_ok_eager(equation) ==
  /\ "'" \notin Range(equation)
  /\ py_eval(str_from(equation, str_find(equation, <<"=">>, 1) + 1),
             <<Zero, Zero, Zero>>).e \notin {"SyntaxError", "NameError"}

\* The source compiled per function quotes the equation in '...': it
\* compiles if and only if the equation has no quote to end the literal.
compile_ok(equation) == "'" \notin Range(equation)

build_all(equations, container) ==
  [k \in DOMAIN equations |->
     [t |-> "function", name |-> container, doc |-> equations[k], i |-> k - 1]]

generate_conditions(constraints, variables, nvars) ==
  Let(penalty_parser(constraints, variables, nvars), LAMBDA pp :
    IF \E equation \in Range(pp.eq) \cup Range(pp.ineq) : ~compile_ok(equation)
    THEN [err |-> "SyntaxError", inequality |-> <<>>, equality |-> <<>>]
    ELSE [err |-> "",
          inequality |-> build_all(pp.ineq, "inequality"),
          equality |-> build_all(pp.eq, "equality")])

generate_solvers(constraints, variables, nvars) ==
  Let(constraints_parser(constraints, variables, nvars), LAMBDA cp :
    IF cp.err # "" THEN [err |-> cp.err, solver |-> <<>>]
    ELSE IF \E equation \in Range(cp.parsed) : ~compile_ok(equation)
    THEN [err |-> "SyntaxError", solver |-> <<>>]
    ELSE [err |-> "", solver |-> build_all(cp.parsed, "solver")])

\* a condition function called on x: eval of its equation
condition_call(condition, x) == py_eval(condition.doc, x)

\* exec of a solver's statement, as compiled: target = expression.  kind is
\* "item" for the target x[i], "name" for a name, which exec binds locally.
py_assignment(stmt) ==
  Let(str_find(stmt, <<"=">>, 1), LAMBDA eq :
    Let(str_strip(SubSeq(stmt, 1, eq - 1), Whitespace), LAMBDA target :
      Let(py_span(target, 3, Digits), LAMBDA d :
        IF eq = 0 THEN [e |-> "SyntaxError", kind |-> "", i |-> 0, rhs |-> <<>>]
        ELSE IF /\ Len(target) >= 4 /\ target[1] = "x" /\ target[2] = "["
                /\ d > 3 /\ d = Len(target) /\ target[d] = "]"
          THEN [e |-> "", kind |-> "item", i |-> int_str(SubSeq(target, 3, d - 1)),
                rhs |-> str_from(stmt, eq + 1)]
        ELSE IF /\ target # <<>> /\ target[1] \in Letters
                /\ py_span(target, 1, Letters \cup Digits) = Len(target) + 1
          THEN [e |-> "", kind |-> "name", i |-> 0, rhs |-> str_from(stmt, eq + 1)]
        ELSE [e |-> "SyntaxError", kind |-> "", i |-> 0, rhs |-> <<>>])))

(***************************************************************************)
(* mystic.penalty's quadratic penalties and mystic.coupler's inner, as     *)
(* generate_penalty and generate_constraint use them.                      *)
(***************************************************************************)
\* the penalty multiplier k when none is given
k_default == 100

\* k * condition(x)**2, and k * max(0., condition(x))**2
quadratic_term(kind, c) ==
  IF kind = "quadratic_inequality"
  THEN RMul(RInt(k_default), RMul(RMax(Zero, c), RMax(Zero, c)))
  ELSE RMul(RInt(k_default), RMul(c, c))

\* a penalty function called on x: its own term added to what it wraps
RECURSIVE penalty_call(_, _)
penalty_call(pf, x) ==
  IF pf.kind = "zero" THEN [e |-> "", v |-> Zero]
  ELSE Let(condition_call(pf.condition, x), LAMBDA c :
    IF c.e # "" THEN c
    ELSE Let(penalty_call(pf.f, x), LAMBDA r :
      IF r.e # "" THEN r
      ELSE [e |-> "", v |-> RAdd(quadratic_term(pf.kind, c.v), r.v)]))

\* inner(solver)(f)(x) is f(solver(x)): the solver it was given first,
\* then the function it wraps
inner_first(cf) == cf.condition
inner_then(cf) == cf.f

(***************************************************************************)
(* generate_penalty and generate_constraint.                               *)
(***************************************************************************)
NoKinds == [t |-> "none"]

\* mystic.tools.flatten: the functions of a nested list, left to right
RECURSIVE flatten(_), flatten_all(_)
flatten(a) == IF a.t = "tuple" THEN flatten_all(a.v) ELSE <<a>>
flatten_all(l) == IF l = <<>> THEN <<>> ELSE flatten(l[1]) \o flatten_all(Tail(l))

\* the fold from the right: the first pair wraps last
RECURSIVE wrap_all_right(_, _, _)
wrap_all_right(acc, kinds, conditions) ==
  IF kinds = <<>> \/ conditions = <<>> THEN acc
  ELSE [kind |-> kinds[1], condition |-> conditions[1],
        f |-> wrap_all_right(acc, Tail(kinds), Tail(conditions))]

\* for kind, condition in zip(kinds, conditions): f = kind(condition)(f)
RECURSIVE wrap_all(_, _, _)
wrap_all(acc, kinds, conditions) ==
  IF kinds = <<>> \/ conditions = <<>> THEN acc
  ELSE wrap_all([kind |-> kinds[1], condition |-> conditions[1], f |-> acc],
                Tail(kinds), Tail(conditions))

\* every condition taken for an equality
default_ptype_equality(conditions) ==
  [k \in DOMAIN conditions |-> "quadratic_equality"]

default_ptype(conditions) ==
  [k \in DOMAIN conditions |->
     IF conditions[k].name = "inequality"
     THEN "quadratic_inequality" ELSE "quadratic_equality"]

\* the penalty of the last condition alone
generate_penalty_last(conditions, ptype) ==
  Let(flatten(conditions), LAMBDA flat :
    wrap_all([kind |-> "zero"],
             IF ptype = NoKinds THEN default_ptype(SubSeq(flat, Len(flat), Len(flat)))
             ELSE SubSeq(ptype.v, Len(flat), Len(flat)),
             SubSeq(flat, Len(flat), Len(flat))))

generate_penalty(conditions, ptype) ==
  Let(flatten(conditions), LAMBDA flat :
    wrap_all([kind |-> "zero"],
             IF ptype = NoKinds THEN default_ptype(flat) ELSE ptype.v,
             flat))

reversed(l) == [k \in DOMAIN l |-> l[Len(l) + 1 - k]]

\* the solvers wrapped from the last to the first
generate_constraint_backwards(conditions, ctype) ==
  Let(reversed(flatten(conditions)), LAMBDA flat :
    wrap_all([kind |-> "identity"],
             IF ctype = NoKinds THEN [k \in DOMAIN flat |-> "inner"] ELSE ctype.v,
             flat))

generate_constraint(conditions, ctype) ==
  Let(flatten(conditions), LAMBDA flat :
    wrap_all([kind |-> "identity"],
             IF ctype = NoKinds THEN [k \in DOMAIN flat |-> "inner"] ELSE ctype.v,
             flat))

(***************************************************************************)
(* The inputs: constraint texts of up to MaxLines lines, and points.       *)
(***************************************************************************)
MaxLines == 2

\* the number of times the caller applies the constraint function, each
\* time to the point the previous call returned
MaxCalls == 2

ConstraintLines ==
  { <<"x", "2", " ", "=", " ", "x", "0", "/", "2", ".">>,
    <<"x", "0", " ", ">", "=", " ", "0", ".">>,
    <<"x", "1", " ", "<", " ", "x", "0">>,
    <<"x", "2", " ", ">", " ", "x", "1">>,
    <<"x", "0", " ", "=", " ", "x", "1", " ", "+", " ", "1">>,
    <<"x", "0", " ", "+", " ", "1">>,
    <<"x", "1", " ", "=", " ", "y", " ", "+", " ", "1">>,
    <<"x", "1", " ", "=", " ", "x", "0", " ", "+">>,
    <<"x", "1", " ", "=", " ", "'", "a">>,
    <<"x", "0", " ", "<", "=", " ", "x", "1", " ", "=", " ", "2">> }

RECURSIVE LineSeqs(_)
LineSeqs(n) ==
  IF n = 0 THEN {<<>>}
  ELSE {<<>>} \cup {<<l>> \o ls : l \in ConstraintLines, ls \in LineSeqs(n - 1)}

Texts == {str_join(<<"\n">>, ls) : ls \in LineSeqs(MaxLines) \ {<<>>}}

Points ==
  { <<RInt(-1), RInt(2), RInt(-3)>>,
    <<RInt(1), RInt(2), Rat(1, 2)>>,
    <<RInt(0), RInt(0), RInt(0)>> }

Procs == {1, 2}

(***************************************************************************)
(* The state: the caller's text and point objects, what each stage of the  *)
(* compile returned, and the invocations of the composed function.         *)
(***************************************************************************)
VARIABLES
  constraints,  \* the constraint text
  nvars,        \* the nvars argument
  path,         \* "penalty": generate_conditions, generate_penalty;
                \* "constraint": generate_solvers, generate_constraint
  pc,           \* "start", "built", "composed" or "raised"
  parsed,       \* <<what the parser returned>>, once it has run
  built,        \* the tuples of condition functions, or of solver functions
  composed,     \* the penalty or constraint function
  heap,         \* the point objects: heap[r] is the list object r holds
  arg,          \* arg[p]: the object invocation p passes
  calls,        \* calls[p]: how many calls p has still to make
  frames,       \* frames[p]: the running call of the constraint function
  ins,          \* ins[p]: the argument's value at each call of p
  outs,         \* outs[p]: the returned object's value at each return of p
  pen,          \* <<value>> once the penalty function has returned
  raised,       \* [err, at]: the exception raised, and in which stage
  renaming,     \* a call of replace_variables: its arguments, and <<result>>
  extracting,   \* calls of get_variables: their arguments, and <<result>>s
  linear,       \* a call of linear_symbolic: its arguments, and <<result>>
  solver,       \* a NelderMeadSimplexSolver, and what fmin has returned
  nested        \* a BatchGridSolver: its settings, the mapped results, the best

vars == <<constraints, nvars, path, pc, parsed, built, composed, heap, arg,
          calls, frames, ins, outs, pen, raised, renaming, extracting,
          linear, solver, nested>>

\* a frame: st its position, clo what is left to run, ref the object bound
\* to x, tgt and tmp the index and value read to store, ran the positions
\* of the solvers that have returned, err what it raised
Idle == [st |-> "idle", clo |-> [kind |-> "identity"], ref |-> 0,
         tgt |-> 0, tmp |-> Zero, ran |-> <<>>, err |-> ""]

NoRenaming == [constraints |-> <<>>, variables |-> <<>>, markers |-> <<>>,
               result |-> <<>>]

NoExtracting == [constraints |-> <<>>, variables |-> <<>>, result |-> <<>>,
                 renamed |-> <<>>]

InitCompile(texts) ==
  /\ constraints \in texts
  /\ nvars = 3
  /\ pc = "start"
  /\ parsed = <<>>
  /\ built = Tuple(<<>>)
  /\ composed = [kind |-> "none"]
  /\ frames = [p \in Procs |-> Idle]
  /\ ins = [p \in Procs |-> <<>>]
  /\ outs = [p \in Procs |-> <<>>]
  /\ pen = <<>>
  /\ raised = [err |-> "", at |-> ""]

\* one caller, one point object
Init ==
  /\ InitCompile(Texts)
  /\ path \in {"penalty", "constraint"}
  /\ \E x \in Points : heap = <<x>>
  /\ arg = [p \in Procs |-> 1]
  /\ calls = [p \in Procs |-> IF p = 1 THEN MaxCalls ELSE 0]
  /\ renaming = NoRenaming
  /\ extracting = NoExtracting
  /\ linear = <<>> /\ solver = <<>> /\ nested = <<>>

Raise(err, at) ==
  /\ raised' = [err |-> err, at |-> at]
  /\ pc' = "raised"

(***************************************************************************)
(* Compiling.                                                              *)
(***************************************************************************)
GenerateConditions ==
  /\ pc = "start" /\ path = "penalty"
  /\ \E r \in {generate_conditions(constraints, Str(<<"x">>), nvars)} :
       /\ parsed' = <<penalty_parser(constraints, Str(<<"x">>), nvars)>>
       /\ IF r.err # ""
          THEN Raise(r.err, "build") /\ UNCHANGED built
          ELSE /\ built' = Tuple(<<Tuple(r.inequality), Tuple(r.equality)>>)
               /\ pc' = "built"
               /\ UNCHANGED raised
  /\ UNCHANGED <<constraints, nvars, path, composed, heap, arg, calls, frames,
                 ins, outs, pen, renaming,
                 extracting,
                 linear, solver, nested>>

GenerateSolvers ==
  /\ pc = "start" /\ path = "constraint"
  /\ \E r \in {generate_solvers(constraints, Str(<<"x">>), nvars)} :
       /\ parsed' = <<constraints_parser(constraints, Str(<<"x">>), nvars)>>
       /\ IF r.err # ""
          THEN Raise(r.err, "build") /\ UNCHANGED built
          ELSE /\ built' = Tuple(r.solver)
               /\ pc' = "built"
               /\ UNCHANGED raised
  /\ UNCHANGED <<constraints, nvars, path, composed, heap, arg, calls, frames,
                 ins, outs, pen, renaming,
                 extracting,
                 linear, solver, nested>>

GeneratePenalty ==
  /\ pc = "built" /\ path = "penalty"
  /\ composed' = generate_penalty(built, NoKinds)
  /\ pc' = "composed"
  /\ UNCHANGED <<constraints, nvars, path, parsed, built, heap, arg, calls,
                 frames, ins, outs, pen, raised, renaming,
                 extracting,
                 linear, solver, nested>>

GenerateConstraint ==
  /\ pc = "built" /\ path = "constraint"
  /\ composed' = generate_constraint(built, NoKinds)
  /\ pc' = "composed"
  /\ UNCHANGED <<constraints, nvars, path, parsed, built, heap, arg, calls,
                 frames, ins, outs, pen, raised, renaming,
                 extracting,
                 linear, solver, nested>>

(***************************************************************************)
(* Calling the penalty function: it reads the point and returns a number.  *)
(***************************************************************************)
CallPenalty ==
  /\ pc = "composed" /\ path = "penalty" /\ pen = <<>>
  /\ \E r \in {penalty_call(composed, heap[arg[1]])} :
       IF r.e # ""
       THEN Raise(r.e, "evaluate") /\ UNCHANGED pen
       ELSE pen' = <<r.v>> /\ UNCHANGED <<pc, raised>>
  /\ UNCHANGED <<constraints, nvars, path, parsed, built, composed, heap, arg,
                 calls, frames, ins, outs, renaming,
                 extracting,
                 linear, solver, nested>>

(***************************************************************************)
(* Calling the constraint function.  inner(solver)(f)(x) calls solver(x)   *)
(* and then f on what it returned; a solver's exec compiles its statement, *)
(* evaluates the right side and then stores into the object bound to x,    *)
(* and the solver returns that object.                                     *)
(***************************************************************************)
Call(p) ==
  /\ pc = "composed" /\ path = "constraint"
  /\ frames[p].st \in {"idle", "done"} /\ calls[p] > 0
  /\ calls' = [calls EXCEPT ![p] = @ - 1]
  /\ frames' = [frames EXCEPT ![p] = [Idle EXCEPT !.st = "run", !.clo = composed,
                                                   !.ref = arg[p]]]
  /\ ins' = [ins EXCEPT ![p] = Append(@, heap[arg[p]])]
  /\ UNCHANGED <<constraints, nvars, path, pc, parsed, built, composed, heap,
                 arg, outs, pen, raised, renaming,
                 extracting,
                 linear, solver, nested>>

\* the right side evaluated with the target's own component read as zero
solver_eval_unbounded(f, x) ==
  Let(py_assignment(inner_first(f.clo).doc), LAMBDA a :
    Let(py_eval(a.rhs, [k \in DOMAIN x |-> IF k = a.i + 1 THEN Zero ELSE x[k]]), LAMBDA r :
      IF a.e # "" THEN [f EXCEPT !.st = "raised", !.err = a.e]
      ELSE IF r.e # "" THEN [f EXCEPT !.st = "raised", !.err = r.e]
      ELSE [f EXCEPT !.st = IF a.kind = "item" THEN "store" ELSE "next",
                     !.tgt = a.i, !.tmp = r.v]))

\* the frame after the solver's exec has evaluated the right side on x
solver_eval(f, x) ==
  Let(py_assignment(inner_first(f.clo).doc), LAMBDA a :
    Let(py_eval(a.rhs, x), LAMBDA r :
      IF a.e # "" THEN [f EXCEPT !.st = "raised", !.err = a.e]
      ELSE IF r.e # "" THEN [f EXCEPT !.st = "raised", !.err = r.e]
      ELSE [f EXCEPT !.st = IF a.kind = "item" THEN "store" ELSE "next",
                     !.tgt = a.i, !.tmp = r.v]))

SolverEval(p) ==
  /\ pc = "composed"
  /\ frames[p].st = "run" /\ frames[p].clo.kind = "inner"
  /\ \E f \in {solver_eval(frames[p], heap[frames[p].ref])} :
       /\ frames' = [frames EXCEPT ![p] = f]
       /\ IF f.st = "raised" THEN Raise(f.err, "evaluate")
          ELSE UNCHANGED <<pc, raised>>
  /\ UNCHANGED <<constraints, nvars, path, parsed, built, composed, heap, arg,
                 calls, ins, outs, pen, renaming,
                 extracting,
                 linear, solver, nested>>

\* x[tgt] = tmp on the object the frame holds, and the solver's return
SolverStore(p) ==
  /\ pc = "composed"
  /\ frames[p].st \in {"store", "next"}
  /\ \E f \in {frames[p]} :
       IF f.st = "store" /\ f.tgt + 1 \notin DOMAIN heap[f.ref]
       THEN /\ Raise("IndexError", "evaluate")
            /\ frames' = [frames EXCEPT ![p].st = "raised", ![p].err = "IndexError"]
            /\ UNCHANGED heap
       ELSE /\ heap' = IF f.st = "store"
                       THEN [heap EXCEPT ![f.ref][f.tgt + 1] = f.tmp] ELSE heap
            /\ frames' = [frames EXCEPT ![p].st = "run",
                                        ![p].ran = Append(@, inner_first(f.clo).i),
                                        ![p].clo = inner_then(f.clo)]
            /\ UNCHANGED <<pc, raised>>
  /\ UNCHANGED <<constraints, nvars, path, parsed, built, composed, arg, calls,
                 ins, outs, pen, renaming,
                 extracting,
                 linear, solver, nested>>

Return(p) ==
  /\ pc = "composed"
  /\ frames[p].st = "run" /\ frames[p].clo.kind = "identity"
  /\ frames' = [frames EXCEPT ![p].st = "done"]
  /\ outs' = [outs EXCEPT ![p] = Append(@, heap[frames[p].ref])]
  /\ UNCHANGED <<constraints, nvars, path, pc, parsed, built, composed, heap,
                 arg, calls, ins, pen, raised, renaming,
                 extracting,
                 linear, solver, nested>>

Next ==
  \/ GenerateConditions
  \/ GenerateSolvers
  \/ GeneratePenalty
  \/ GenerateConstraint
  \/ CallPenalty
  \/ Call(1)
  \/ SolverEval(1)
  \/ SolverStore(1)
  \/ Return(1)

Spec == Init /\ [][Next]_vars
(***************************************************************************)
(* Two invocations of one constraint function, their steps interleaved.    *)
(* Each passes a point object: the same one, or one of its own.  The lines *)
(* used here raise nothing, so that neither invocation ends the other.     *)
(***************************************************************************)
ConcLines ==
  { <<"x", "2", " ", "=", " ", "x", "0", "/", "2", ".">>,
    <<"x", "0", " ", ">", "=", " ", "0", ".">>,
    <<"x", "0", " ", "=", " ", "x", "2", " ", "+", " ", "1">>,
    <<"x", "1", " ", "<", " ", "x", "0">> }

RECURSIVE ConcLineSeqs(_)
ConcLineSeqs(n) ==
  IF n = 0 THEN {<<>>}
  ELSE {<<>>} \cup {<<l>> \o ls : l \in ConcLines, ls \in ConcLineSeqs(n - 1)}

ConcTexts == {str_join(<<"\n">>, ls) : ls \in ConcLineSeqs(MaxLines) \ {<<>>}}

InitConc ==
  /\ InitCompile(ConcTexts)
  /\ path = "constraint"
  /\ \E x \in Points : heap = <<x, x>>
  /\ arg \in {[p \in Procs |-> 1], [p \in Procs |-> p]}
  /\ calls = [p \in Procs |-> 1]
  /\ renaming = NoRenaming
  /\ extracting = NoExtracting
  /\ linear = <<>> /\ solver = <<>> /\ nested = <<>>

NextConc ==
  \/ GenerateSolvers
  \/ GenerateConstraint
  \/ \E p \in Procs : Call(p)
  \/ \E p \in Procs : SolverEval(p)
  \/ \E p \in Procs : SolverStore(p)
  \/ \E p \in Procs : Return(p)

SpecConc == InitConc /\ [][NextConc]_vars

(***************************************************************************)
(* replace_variables on its own: a text, a list of distinct names, a       *)
(* marker.                                                                 *)
(***************************************************************************)
RenameTexts ==
  { <<"s", "p", "a", "m", " ", "+", " ", "e", "g", "g", "s", " ", "-", " ", "4", "2">>,
    <<"x", "1", " ", "+", " ", "x", "0">>,
    <<"a", "b", " ", "+", " ", "a">>,
    <<"y", " ", "+", " ", "x", "*", "y">>,
    <<"a", "1", " ", "+", " ", "a">> }

RenameVariables ==
  { <<<<"s", "p", "a", "m">>, <<"e", "g", "g", "s">>>>,
    <<<<"x", "1">>, <<"x", "0">>>>,
    <<<<"a">>, <<"a", "b">>>>,
    <<<<"a", "b">>, <<"a">>>>,
    <<<<"x">>, <<"y">>>>,
    <<<<"a">>, <<"a", "1">>>> }

RenameMarkers == {<<"x">>, <<"$">>, <<"a">>, <<"y">>}

InitRename ==
  /\ renaming \in [constraints : RenameTexts, variables : RenameVariables,
                   markers : RenameMarkers, result : {<<>>}]
  /\ InitCompile({<<>>})
  /\ path = "none"
  /\ heap = <<>>
  /\ arg = [p \in Procs |-> 1]
  /\ calls = [p \in Procs |-> 0]
  /\ extracting = NoExtracting
  /\ linear = <<>> /\ solver = <<>> /\ nested = <<>>

ReplaceVariables ==
  /\ renaming.result = <<>>
  /\ renaming' = [renaming EXCEPT !.result =
       <<replace_variables(renaming.constraints, renaming.variables, renaming.markers)>>]
  /\ UNCHANGED <<constraints, nvars, path, pc, parsed, built, composed, heap,
                 arg, calls, frames, ins, outs, pen, raised, extracting,
                 linear, solver, nested>>

NextRename == ReplaceVariables

SpecRename == InitRename /\ [][NextRename]_vars

(***************************************************************************)
(* replace_variables and get_variables as a caller uses them: a text, a    *)
(* list of names and a marker (a string, or a list of replacement names)   *)
(* for the one; a text and a base or a list of candidate names for the     *)
(* other, which is also given the renamed text with the marker as base.    *)
(* Here renaming.result holds <<[e, v]>>.                                  *)
(***************************************************************************)
InitNames ==
  /\ renaming \in
       [ constraints :
           { <<"y", " ", "+", " ", "x", "*", "y">>,
             <<"u", " ", "+", " ", "_">>,
             <<"x", "1", " ", "+", " ", "x", "0">>,
             <<"b", " ", "+", " ", "k">>,
             <<"k", " ", "+", " ", "b">>,
             <<"m", "i", "n", "(", "x", "1", "*", "x", "2", ")", " ", "-", " ", "s", "i", "n", "(", "x", "3", ")">> },
         variables :
           { <<<<"x">>, <<"y">>>>,
             <<<<"u">>, <<"_">>>>,
             <<<<"x", "0">>, <<"x", "1">>>>,
             <<<<"x", "1">>, <<"x", "0">>>>,
             <<<<"x", "1">>, <<"x", "2">>, <<"x", "3">>>>,
             <<<<"a">>, <<"b">>, <<"c">>, <<"d">>, <<"e">>, <<"f">>, <<"g">>, <<"h">>, <<"i">>, <<"j">>, <<"k">>>> },
         markers :
           { Str(<<"x">>), Str(<<"$">>), Str(<<"y">>), Str(<<"_">>),
             List(<<<<"y">>, <<"x">>>>),
             List(<<<<"x">>, <<"y">>, <<"z">>>>),
             List(<<<<"n">>, <<"o">>, <<"p">>, <<"q">>, <<"r">>, <<"s">>, <<"t">>, <<"u">>, <<"v">>, <<"w">>, <<"z">>>>) },
         result : {<<>>} ]
  /\ extracting \in
       [ constraints :
           { <<"x", "1", " ", "+", " ", "x", "2", " ", "=", " ", "x", "3", "*", "4", "\n", "x", "3", " ", "=", " ", "x", "2", "*", "x", "4">>,
             <<"x", "1", "2", " ", "+", " ", "x", "1", " ", "=", " ", "x", "1", "2">>,
             <<"y", " ", "=", " ", "u", "*", "s", "i", "n", "(", "x", ")", "\n", "u", " ", "=", " ", "x">>,
             <<"$", "1", " ", "+", " ", "$", "0", "*", "$", "1">> },
         variables :
           { Str(<<"x">>), Str(<<"$">>), List(<<<<"x">>, <<"y">>>>), List(<<<<"s">>, <<"u">>, <<"x">>, <<"y">>>>) },
         result : {<<>>},
         renamed : {<<>>} ]
  /\ InitCompile({<<>>})
  /\ path = "none"
  /\ heap = <<>>
  /\ arg = [p \in Procs |-> 1]
  /\ calls = [p \in Procs |-> 0]
  /\ linear = <<>> /\ solver = <<>> /\ nested = <<>>

\* replace_variables(constraints, variables, markers)
ReplaceNames ==
  /\ renaming.result = <<>>
  /\ renaming' = [renaming EXCEPT !.result =
       <<replace_variables_call(renaming.constraints, renaming.variables,
                                renaming.markers)>>]
  /\ UNCHANGED <<constraints, nvars, path, pc, parsed, built, composed, heap,
                 arg, calls, frames, ins, outs, pen, raised, extracting,
                 linear, solver, nested>>

\* get_variables(constraints, variables)
GetVariables ==
  /\ extracting.result = <<>>
  /\ extracting' = [extracting EXCEPT !.result =
       <<get_variables_call(extracting.constraints, extracting.variables)>>]
  /\ UNCHANGED <<constraints, nvars, path, pc, parsed, built, composed, heap,
                 arg, calls, frames, ins, outs, pen, raised, renaming,
                 linear, solver, nested>>

\* get_variables(replace_variables(constraints, variables, markers), markers)
GetRenamed ==
  /\ renaming.result # <<>>
  /\ extracting.renamed = <<>>
  /\ \E r \in {renaming.result[1]} :
       /\ r.e = ""
       /\ extracting' = [extracting EXCEPT !.renamed =
            <<get_variables_call(r.v, renaming.markers)>>]
  /\ UNCHANGED <<constraints, nvars, path, pc, parsed, built, composed, heap,
                 arg, calls, frames, ins, outs, pen, raised, renaming,
                 linear, solver, nested>>

NextNames ==
  \/ ReplaceNames
  \/ GetVariables
  \/ GetRenamed

SpecNames == InitNames /\ [][NextNames]_vars

(***************************************************************************)
(* The two parsers called on their own, on texts with blank and indented   *)
(* lines and with aggregates (spread, mean, variance, sum, product) of a   *)
(* subset of the variables.                                                *)
(***************************************************************************)
MaxParseLines == 2

InitParse ==
  /\ \E n \in 1..MaxParseLines :
       \E ls \in [1..n ->
                   { <<"x", "2", " ", "=", " ", "x", "0", "/", "2", ".">>,
                     <<" ", " ", " ", " ", "x", "0", " ", ">", "=", " ", "0", ".">>,
                     <<"x", "1", " ", "<", " ", "x", "0">>,
                     <<"x", "2", " ", ">", " ", "x", "1">>,
                     <<"x", "0", " ", "<", "=", " ", "x", "1">>,
                     <<>>,
                     <<" ", " ", " ">>,
                     <<"x", "0", " ", "=", " ", "m", "e", "a", "n", "(", "[", "x", "1", ",", " ", "x", "2", "]", ")">>,
                     <<"m", "e", "a", "n", "(", "[", "x", "0", ",", " ", "x", "1", "]", ")", " ", "=", " ", "1", ".">>,
                     <<"s", "p", "r", "e", "a", "d", "(", "[", "x", "0", ",", " ", "x", "1", "]", ")", " ", "<", " ", "2">>,
                     <<"s", "u", "m", "(", "[", "x", "0", ",", " ", "x", "2", "]", ")", " ", ">", "=", " ", "3">>,
                     <<"p", "r", "o", "d", "u", "c", "t", "(", "[", "x", "1", ",", " ", "x", "2", "]", ")", " ", "=", " ", "4">>,
                     <<"v", "a", "r", "i", "a", "n", "c", "e", "(", "[", "x", "0", ",", " ", "x", "1", "]", ")", " ", ">", " ", "1">>,
                     <<"x", "0", " ", "<", " ", "x", "1", " ", "<", " ", "x", "2">> }] :
         InitCompile({str_join(<<"\n">>, ls)})
  /\ path \in {"penalty", "constraint"}
  /\ heap = <<>>
  /\ arg = [p \in Procs |-> 1]
  /\ calls = [p \in Procs |-> 0]
  /\ renaming = NoRenaming
  /\ extracting = NoExtracting
  /\ linear = <<>> /\ solver = <<>> /\ nested = <<>>

\* penalty_parser(constraints, nvars=3)
PenaltyParser ==
  /\ pc = "start" /\ path = "penalty"
  /\ parsed' = <<penalty_parser(constraints, Str(<<"x">>), nvars)>>
  /\ pc' = "parsed"
  /\ UNCHANGED <<constraints, nvars, path, built, composed, heap, arg, calls,
                 frames, ins, outs, pen, raised, renaming, extracting,
                 linear, solver, nested>>

\* constraints_parser(constraints, nvars=3)
ConstraintsParser ==
  /\ pc = "start" /\ path = "constraint"
  /\ \E r \in {constraints_parser(constraints, Str(<<"x">>), nvars)} :
       /\ parsed' = <<r>>
       /\ IF r.err # "" THEN Raise(r.err, "parse")
          ELSE pc' = "parsed" /\ UNCHANGED raised
  /\ UNCHANGED <<constraints, nvars, path, built, composed, heap, arg, calls,
                 frames, ins, outs, pen, renaming, extracting,
                 linear, solver, nested>>

NextParse ==
  \/ PenaltyParser
  \/ ConstraintsParser

SpecParse == InitParse /\ [][NextParse]_vars

(***************************************************************************)
(* generate_penalty(conditions, ptype) and generate_constraint(conditions, *)
(* ctype) given a list of kinds, of up to MaxKinds kinds.                  *)
(***************************************************************************)
MaxKinds == 3

GenerateWithKinds ==
  /\ pc = "built"
  /\ \E n \in 0..MaxKinds :
       IF path = "penalty"
       THEN \E ptype \in [1..n -> {"quadratic_equality", "quadratic_inequality"}] :
              composed' = generate_penalty(built, List(ptype))
       ELSE \E ctype \in [1..n -> {"inner"}] :
              composed' = generate_constraint(built, List(ctype))
  /\ pc' = "composed"
  /\ UNCHANGED <<constraints, nvars, path, parsed, built, heap, arg, calls,
                 frames, ins, outs, pen, raised, renaming, extracting,
                 linear, solver, nested>>

SpecKinds ==
  Init /\ [][GenerateConditions \/ GenerateSolvers \/ GenerateWithKinds]_vars

(***************************************************************************)
(* The parsers on texts of more than ten variables, with nvars given or    *)
(* left out (None), in which case ndim is inferred from the text.          *)
(***************************************************************************)
InitWide ==
  /\ \E n \in 1..MaxParseLines :
       \E ls \in [1..n ->
                   { <<"x", "1", "0", " ", "=", " ", "x", "1">>,
                     <<"x", "1", " ", "<", " ", "x", "1", "0">>,
                     <<"x", "1", "1", " ", ">", " ", "x", "1", "*", "x", "1", "0">>,
                     <<"x", "0", " ", "=", " ", "x", "1", "0", " ", "+", " ", "x", "1", "1">>,
                     <<"x", "2", " ", ">", "=", " ", "x", "0">> }] :
         constraints = str_join(<<"\n">>, ls)
  /\ nvars \in {None, 11, 12}
  /\ path \in {"penalty", "constraint"}
  /\ pc = "start"
  /\ parsed = <<>>
  /\ built = Tuple(<<>>)
  /\ composed = [kind |-> "none"]
  /\ frames = [p \in Procs |-> Idle]
  /\ ins = [p \in Procs |-> <<>>]
  /\ outs = [p \in Procs |-> <<>>]
  /\ pen = <<>>
  /\ raised = [err |-> "", at |-> ""]
  /\ heap = <<>>
  /\ arg = [p \in Procs |-> 1]
  /\ calls = [p \in Procs |-> 0]
  /\ renaming = NoRenaming
  /\ extracting = NoExtracting
  /\ linear = <<>> /\ solver = <<>> /\ nested = <<>>

SpecWide == InitWide /\ [][NextParse]_vars

(***************************************************************************)
(* linear_symbolic(A, b, G, h).  A number is [t |-> "int" or "float", n]   *)
(* with n its (whole) value, a list List(<<...>>) of numbers or of lists,  *)
(* and an argument left out [t |-> "none"].                                *)
(***************************************************************************)
\* str(n) of an int, or of a float with a whole value
py_str(n) ==
  (IF n.n < 0 THEN <<"-">> ELSE <<>>) \o str_int(Abs(n.n))
    \o (IF n.t = "float" THEN <<".", "0">> ELSE <<>>)

\* the lines of as many rows as have an entry, without the check of line 63
linear_lines_unchecked(A, b, op) ==
  IF A.t = "none" \/ b.t = "none" THEN [e |-> "", v |-> <<>>]
  ELSE
    Let(A.v # <<>> /\ A.v[1].t = "list", LAMBDA nested_list :
      Let([ndim |-> IF nested_list THEN Len(A.v[1].v) ELSE Len(A.v),
           A |-> IF nested_list THEN A.v ELSE <<A>>,
           b |-> IF Len(b.v) = 1 /\ b.v[1].t = "list" THEN b.v[1].v ELSE b.v],
          LAMBDA l :
            [e |-> "",
             v |-> str_join(<<>>, [i \in DOMAIN l.b \cap DOMAIN l.A |->
                     str_rstrip(
                       str_join(<<>>, [j \in 1..l.ndim |->
                         py_str(l.A[i].v[j]) \o <<"*", "x">> \o str_int(j - 1) \o <<" ", "+", " ">>]),
                       {" ", "+"})
                     \o op \o py_str(l.b[i]) \o <<"\n">>])]))

\* the lines of one pair of arguments, each 'sum op b[i]\n'
linear_lines(A, b, op) ==
  IF A.t = "none" \/ b.t = "none" THEN [e |-> "", v |-> <<>>]
  ELSE
    Let(A.v # <<>> /\ A.v[1].t = "list", LAMBDA nested_list :
      Let([ndim |-> IF nested_list THEN Len(A.v[1].v) ELSE Len(A.v),
           A |-> IF nested_list THEN A.v ELSE <<A>>,
           b |-> IF Len(b.v) = 1 /\ b.v[1].t = "list" THEN b.v[1].v ELSE b.v],
          LAMBDA l :
            IF Len(l.A) # Len(l.b) THEN [e |-> "Exception", v |-> <<>>]
            ELSE IF \E i \in DOMAIN l.A : Len(l.A[i].v) < l.ndim
            THEN [e |-> "IndexError", v |-> <<>>]
            ELSE [e |-> "",
                  v |-> str_join(<<>>, [i \in DOMAIN l.b |->
                          str_rstrip(
                            str_join(<<>>, [j \in 1..l.ndim |->
                              py_str(l.A[i].v[j]) \o <<"*", "x">> \o str_int(j - 1) \o <<" ", "+", " ">>]),
                            {" ", "+"})
                          \o op \o py_str(l.b[i]) \o <<"\n">>])]))

\* the equality lines put first
linear_symbolic_equalities_first(A, b, G, h) ==
  Let(linear_lines(A, b, <<" ", "=", " ">>), LAMBDA eqstring :
    IF eqstring.e # "" THEN eqstring
    ELSE Let(linear_lines(G, h, <<" ", "<", "=", " ">>), LAMBDA ineqstring :
      IF ineqstring.e # "" THEN ineqstring
      ELSE [e |-> "", v |-> eqstring.v \o ineqstring.v]))

linear_symbolic(A, b, G, h) ==
  Let(linear_lines(A, b, <<" ", "=", " ">>), LAMBDA eqstring :
    IF eqstring.e # "" THEN eqstring
    ELSE Let(linear_lines(G, h, <<" ", "<", "=", " ">>), LAMBDA ineqstring :
      IF ineqstring.e # "" THEN ineqstring
      ELSE [e |-> "", v |-> ineqstring.v \o eqstring.v]))

(***************************************************************************)
(* linear_symbolic as a caller uses it: each of A and G left out, empty,   *)
(* one row, or rows of two or three coefficients, each of b and h left     *)
(* out, empty, flat or nested.  linear.result holds <<[e, v]>>.            *)
(***************************************************************************)
InitLinear ==
  /\ \E matrices \in {{ [t |-> "none"],
                List(<<>>),
                List(<<[t |-> "float", n |-> 1], [t |-> "float", n |-> 0], [t |-> "float", n |-> 0]>>),
                List(<<List(<<[t |-> "float", n |-> 3], [t |-> "float", n |-> 4], [t |-> "float", n |-> 5]>>), List(<<[t |-> "float", n |-> 1], [t |-> "float", n |-> 6], [t |-> "float", n |-> -9]>>)>>),
                List(<<List(<<[t |-> "int", n |-> 3], [t |-> "int", n |-> 4], [t |-> "int", n |-> 5]>>), List(<<[t |-> "int", n |-> 1], [t |-> "int", n |-> 6], [t |-> "int", n |-> -9]>>)>>),
                List(<<List(<<[t |-> "int", n |-> 2], [t |-> "int", n |-> -1]>>)>>),
                List(<<List(<<[t |-> "int", n |-> 1], [t |-> "int", n |-> 0]>>), List(<<[t |-> "int", n |-> 0], [t |-> "int", n |-> 1]>>), List(<<[t |-> "int", n |-> 2], [t |-> "int", n |-> 2]>>)>>) }} :
     \E vectors \in {{ [t |-> "none"],
                List(<<>>),
                List(<<[t |-> "float", n |-> 5]>>),
                List(<<[t |-> "float", n |-> 0], [t |-> "float", n |-> 0]>>),
                List(<<[t |-> "int", n |-> 0], [t |-> "int", n |-> 0]>>),
                List(<<List(<<[t |-> "int", n |-> 1], [t |-> "int", n |-> 2], [t |-> "int", n |-> 3]>>)>>),
                List(<<[t |-> "int", n |-> 4], [t |-> "int", n |-> 5], [t |-> "int", n |-> 6]>>) }} :
       linear \in [A : matrices, b : vectors, G : matrices, h : vectors,
                   result : {<<>>}]
  /\ solver = <<>> /\ nested = <<>>
  /\ InitCompile({<<>>})
  /\ path = "none"
  /\ heap = <<>>
  /\ arg = [p \in Procs |-> 1]
  /\ calls = [p \in Procs |-> 0]
  /\ renaming = NoRenaming
  /\ extracting = NoExtracting

\* linear_symbolic(A, b, G, h)
LinearSymbolic ==
  /\ linear # <<>> /\ linear.result = <<>>
  /\ linear' = [linear EXCEPT !.result =
       <<linear_symbolic(linear.A, linear.b, linear.G, linear.h)>>]
  /\ UNCHANGED <<constraints, nvars, path, pc, parsed, built, composed, heap,
                 arg, calls, frames, ins, outs, pen, raised, renaming,
                 extracting, solver, nested>>

SpecLinear == InitLinear /\ [][LinearSymbolic]_vars

(***************************************************************************)
(* NelderMeadSimplexSolver.  A vertex is a sequence of numbers; solver is  *)
(* the solver object: population and popEnergy (the simplex and its        *)
(* energies), stepmon (the step monitor's x and y), evaluations (the       *)
(* calls of cost counted), the settings cost, constraints, range (<<>> or  *)
(* <<min, max>>), radius, maxiter and maxfun, and what fmin has returned.  *)
(* An energy not yet evaluated is _init_popEnergy, held as <<1, 0>>: it    *)
(* compares above every number.                                            *)
(***************************************************************************)
init_popEnergy == <<1, 0>>

\* numpy.add.reduce(l): the sum of a sequence of numbers
RECURSIVE add_reduce(_)
add_reduce(l) == IF l = <<>> THEN Zero ELSE RAdd(l[1], add_reduce(Tail(l)))

\* cost(x), for the cost functions used here
cost_call(cost, x) ==
  CASE cost = "sphere" -> add_reduce([k \in DOMAIN x |-> RMul(x[k], x[k])])
    [] cost = "distance" ->
         add_reduce([k \in DOMAIN x |->
           IF RLt(x[k], RInt(1)) THEN RSub(RInt(1), x[k]) ELSE RSub(x[k], RInt(1))])
    [] cost = "slope" -> add_reduce(x)

\* constraints(x), for the constraints functions used here: the identity,
\* the solver of 'x0 >= 1' and the solver of 'x0 = x0 + 1'
constraints_call(constraints_, x) ==
  CASE constraints_ = "identity" -> x
    [] constraints_ = "x0 >= 1" -> [x EXCEPT ![1] = RMax(RInt(1), x[1])]
    [] constraints_ = "x0 = x0 + 1" -> [x EXCEPT ![1] = RAdd(x[1], RInt(1))]

\* the places of fsim in the order they are stored in
argsort_as_stored(fsim) == [k \in DOMAIN fsim |-> k]

\* numpy.argsort(fsim): the places of fsim in increasing order of energy
argsort(fsim) ==
  [k \in DOMAIN fsim |->
     CHOOSE j \in DOMAIN fsim :
       Cardinality({i \in DOMAIN fsim :
                      RLt(fsim[i], fsim[j]) \/ (fsim[i] = fsim[j] /\ i < j)}) = k - 1]

\* [x0, val] of _setSimplexWithinRangeBoundary(radius)
setSimplexWithinRangeBoundary(x0_, radius, range) ==
  IF range = <<>>
  THEN [x0 |-> x0_,
        val |-> [k \in DOMAIN x0_ |->
                   IF x0_[k] = Zero THEN RMul(RMul(radius, radius), Rat(1, 10))
                   ELSE RMul(x0_[k], RAdd(RInt(1), radius))]]
  ELSE
    Let([k \in DOMAIN x0_ |-> RMax(range[1][k], RMin(range[2][k], x0_[k]))], LAMBDA x0 :
      Let(RMax(Zero, RMin(Rat(1, 2), radius)), LAMBDA r :
        Let([k \in DOMAIN x0 |->
               RMax(range[1][k],
                    RMin(range[2][k],
                         RAdd(x0[k], RMul(RSub(range[2][k], range[1][k]), r))))],
            LAMBDA val :
          [x0 |-> x0,
           val |-> [k \in DOMAIN x0 |->
                      IF val[k] = x0[k]
                      THEN RSub(x0[k], RMul(RSub(range[2][k], range[1][k]), r))
                      ELSE val[k]]])))

\* a * xbar + b * worst
simplex_point(a, xbar, b, worst) ==
  [k \in DOMAIN xbar |-> RAdd(RMul(a, xbar[k]), RMul(b, worst[k]))]

\* lines 196-240: [sim, fsim, calls, move] of one iteration on the simplex
simplex_move(sim, fsim, cost) ==
  Let([N |-> Len(sim) - 1,
       xbar |-> [k \in DOMAIN sim[1] |->
                   RDiv(add_reduce([j \in 1..(Len(sim) - 1) |-> sim[j][k]]),
                        RInt(Len(sim) - 1))],
       worst |-> sim[Len(sim)]], LAMBDA s :
    Let([xr |-> simplex_point(RInt(2), s.xbar, RInt(-1), s.worst),
         xe |-> simplex_point(RInt(3), s.xbar, RInt(-2), s.worst),
         xc |-> simplex_point(Rat(3, 2), s.xbar, Rat(-1, 2), s.worst),
         xcc |-> simplex_point(Rat(1, 2), s.xbar, Rat(1, 2), s.worst)], LAMBDA p :
      Let([xr |-> cost_call(cost, p.xr), xe |-> cost_call(cost, p.xe),
           xc |-> cost_call(cost, p.xc), xcc |-> cost_call(cost, p.xcc)], LAMBDA f :
        Let([sim |-> [j \in DOMAIN sim |->
                        IF j = 1 THEN sim[1]
                        ELSE simplex_point(Rat(1, 2), sim[1], Rat(1, 2), sim[j])],
             fsim |-> [j \in DOMAIN sim |->
                         IF j = 1 THEN fsim[1]
                         ELSE cost_call(cost, simplex_point(Rat(1, 2), sim[1],
                                                            Rat(1, 2), sim[j]))],
             calls |-> 2 + s.N, move |-> "shrink"], LAMBDA shrink :
          IF RLt(f.xr, fsim[1])
          THEN IF RLt(f.xe, f.xr)
               THEN [sim |-> [sim EXCEPT ![s.N + 1] = p.xe],
                     fsim |-> [fsim EXCEPT ![s.N + 1] = f.xe],
                     calls |-> 2, move |-> "expansion"]
               ELSE [sim |-> [sim EXCEPT ![s.N + 1] = p.xr],
                     fsim |-> [fsim EXCEPT ![s.N + 1] = f.xr],
                     calls |-> 2, move |-> "reflection"]
          ELSE IF RLt(f.xr, fsim[s.N])
          THEN [sim |-> [sim EXCEPT ![s.N + 1] = p.xr],
                fsim |-> [fsim EXCEPT ![s.N + 1] = f.xr],
                calls |-> 1, move |-> "reflection"]
          ELSE IF RLt(f.xr, fsim[s.N + 1])
          THEN IF RLe(f.xc, f.xr)
               THEN [sim |-> [sim EXCEPT ![s.N + 1] = p.xc],
                     fsim |-> [fsim EXCEPT ![s.N + 1] = f.xc],
                     calls |-> 2, move |-> "contraction"]
               ELSE shrink
          ELSE IF RLt(f.xcc, fsim[s.N + 1])
               THEN [sim |-> [sim EXCEPT ![s.N + 1] = p.xcc],
                     fsim |-> [fsim EXCEPT ![s.N + 1] = f.xcc],
                     calls |-> 2, move |-> "inside contraction"]
               ELSE shrink))))

\* self.generations: the steps logged after the first
generations(s) == IF s.stepmon = <<>> THEN 0 ELSE Len(s.stepmon) - 1

\* lines 242-249: the simplex sorted when the monitor is not empty, stored
\* and logged
step_end(s, sim, fsim, fcalls, move) ==
  Let(IF s.stepmon # <<>> THEN argsort(fsim) ELSE [k \in DOMAIN fsim |-> k],
      LAMBDA ind :
    [s EXCEPT !.population = [k \in DOMAIN ind |-> sim[ind[k]]],
              !.popEnergy = [k \in DOMAIN ind |-> fsim[ind[k]]],
              !.stepmon = Append(@, [x |-> sim[ind[1]], y |-> fsim[ind[1]]]),
              !.evaluations = @ + fcalls,
              !.move = move])

\* Step(): the solver after one iteration
step(s) ==
  IF s.stepmon = <<>>
  THEN Let(constraints_call(s.constraints, s.population[1]), LAMBDA x0 :
         step_end(s,
                  [j \in 1..(Len(x0) + 1) |->
                     IF j = 1 THEN x0 ELSE [k \in DOMAIN x0 |-> Zero]],
                  [j \in 1..(Len(x0) + 1) |->
                     IF j = 1 THEN cost_call(s.cost, x0) ELSE init_popEnergy],
                  1, "first"))
  ELSE IF generations(s) = 0
  THEN Let(setSimplexWithinRangeBoundary(s.population[1], s.radius, s.range),
           LAMBDA b :
         step_end(s,
                  [j \in DOMAIN s.population |->
                     IF j = 1 THEN b.x0 ELSE [b.x0 EXCEPT ![j - 1] = b.val[j - 1]]],
                  [j \in DOMAIN s.population |->
                     IF j = 1 THEN s.popEnergy[1]
                     ELSE cost_call(s.cost, [b.x0 EXCEPT ![j - 1] = b.val[j - 1]])],
                  Len(b.x0), "simplex"))
  ELSE Let(simplex_move([s.population EXCEPT
                           ![1] = constraints_call(s.constraints, @)],
                        s.popEnergy, s.cost), LAMBDA m :
         step_end(s, m.sim, m.fsim, m.calls, m.move))

\* the iteration limit looked at before the evaluation limit
warnflag_iterations_first(fcalls, iterations, maxfun, maxiter) ==
  IF iterations >= maxiter THEN 2
  ELSE IF fcalls >= maxfun THEN 1
  ELSE 0

\* lines 394-402 of fmin, and the same lines of fmin_powell
warnflag(fcalls, iterations, maxfun, maxiter) ==
  IF fcalls >= maxfun THEN 1
  ELSE IF iterations >= maxiter THEN 2
  ELSE 0

(***************************************************************************)
(* fmin(cost, x0, bounds, maxiter, maxfun, full_output=1, constraints):    *)
(* the solver it sets up, the Steps that Solve makes until its termination *)
(* or one of the two limits ends it, and what fmin returns.  MaxIter and   *)
(* MaxFun are the largest limits given.  The cost is called as Step calls  *)
(* it, and the radius of the first simplex is one half.                    *)
(***************************************************************************)
MaxIter == 4

MaxFun == 9

InitSimplex ==
  /\ \E x0 \in { <<RInt(2)>>, <<RInt(-2)>>, <<RInt(-2), RInt(3)>>,
                 <<RInt(2), RInt(1)>> } :
       solver \in
         [ cost : {"sphere", "distance", "slope"},
           constraints : {"identity", "x0 >= 1", "x0 = x0 + 1"},
           range : { <<>>,
                     << [k \in DOMAIN x0 |-> RInt(0)],
                        [k \in DOMAIN x0 |-> RInt(1)] >> },
           radius : {Rat(1, 2)},
           maxiter : {1, MaxIter},
           maxfun : {3, MaxFun},
           population : {<< x0, [k \in DOMAIN x0 |-> Zero] >>},
           popEnergy : {<<init_popEnergy, init_popEnergy>>},
           stepmon : {<<>>},
           evaluations : {0},
           move : {"none"},
           returned : {<<>>} ]
  /\ linear = <<>> /\ nested = <<>>
  /\ InitCompile({<<>>})
  /\ path = "none"
  /\ heap = <<>>
  /\ arg = [p \in Procs |-> 1]
  /\ calls = [p \in Procs |-> 0]
  /\ renaming = NoRenaming
  /\ extracting = NoExtracting

\* one Step of the loop of Solve
Step ==
  /\ solver # <<>> /\ solver.returned = <<>>
  /\ solver.evaluations < solver.maxfun
  /\ generations(solver) < solver.maxiter
  /\ solver' = step(solver)
  /\ UNCHANGED <<constraints, nvars, path, pc, parsed, built, composed, heap,
                 arg, calls, frames, ins, outs, pen, raised, renaming,
                 extracting, linear, nested>>

\* Solve has returned: retlist with full_output
Fmin ==
  /\ solver # <<>> /\ solver.returned = <<>>
  /\ solver.stepmon # <<>>
  /\ solver' = [solver EXCEPT !.returned =
       << [x |-> solver.population[1],
           fval |-> solver.popEnergy[1],
           iterations |-> generations(solver),
           fcalls |-> solver.evaluations,
           warnflag |-> warnflag(solver.evaluations, generations(solver),
                                 solver.maxfun, solver.maxiter)] >>]
  /\ UNCHANGED <<constraints, nvars, path, pc, parsed, built, composed, heap,
                 arg, calls, frames, ins, outs, pen, raised, renaming,
                 extracting, linear, nested>>

SpecSimplex == InitSimplex /\ [][Step \/ Fmin]_vars

(***************************************************************************)
(* BatchGridSolver.Solve and ScattershotSolver.Solve (nested.py).  A bound *)
(* is a number with its Python type, [t |-> "int" or "float", v |-> its    *)
(* value]; the module has no true division, so '/' between two ints is     *)
(* the floor of the quotient.  What a nested solver returns for a start    *)
(* point is not determined here: each result is one of LocalRuns.          *)
(***************************************************************************)
\* line 120: step = abs(upper[i] - lower[i])/nbins[i]
bin_step(lower, upper, n) ==
  IF lower.t = "int" /\ upper.t = "int"
  THEN RInt((IF RLt(upper.v, lower.v) THEN RSub(lower.v, upper.v)
             ELSE RSub(upper.v, lower.v))[1] \div n)
  ELSE RMul(IF RLt(upper.v, lower.v) THEN RSub(lower.v, upper.v)
            ELSE RSub(upper.v, lower.v), Rat(1, n))

\* lines 117-121: bins, the start coordinates in each dimension
grid_bins(lower, upper, nbins) ==
  [i \in DOMAIN nbins |->
     [j \in 1..nbins[i] |->
        RAdd(lower[i].v,
             RMul(Rat(2 * j - 1, 2), bin_step(lower[i], upper[i], nbins[i])))]]

\* the number of start points: len(gridpts(bins)), or npts
RECURSIVE number_of_points(_)
number_of_points(nbins) ==
  IF nbins = <<>> THEN 1 ELSE nbins[1] * number_of_points(Tail(nbins))

\* what local_optimize (lines 132-154) may return for a problem of ndim
\* parameters: solved_params, solved_energy, stepmon, evalmon
LocalRuns(ndim) ==
  { [x |-> [k \in 1..ndim |-> 0], y |-> 1,
     stepmon |-> << [x |-> [k \in 1..ndim |-> 1], y |-> 2],
                    [x |-> [k \in 1..ndim |-> 0], y |-> 1] >>,
     evalmon |-> << [x |-> [k \in 1..ndim |-> 1], y |-> 2],
                    [x |-> [k \in 1..ndim |-> 0], y |-> 1],
                    [x |-> [k \in 1..ndim |-> 4], y |-> 5] >>],
    [x |-> [k \in 1..ndim |-> 2], y |-> 0,
     stepmon |-> << [x |-> [k \in 1..ndim |-> 2], y |-> 0] >>,
     evalmon |-> << [x |-> [k \in 1..ndim |-> 2], y |-> 0],
                    [x |-> [k \in 1..ndim |-> 3], y |-> 3] >>],
    [x |-> [k \in 1..ndim |-> 3], y |-> 0,
     stepmon |-> << [x |-> [k \in 1..ndim |-> 4], y |-> 1],
                    [x |-> [k \in 1..ndim |-> 3], y |-> 0] >>,
     evalmon |-> << [x |-> [k \in 1..ndim |-> 4], y |-> 1],
                    [x |-> [k \in 1..ndim |-> 3], y |-> 0] >>] }

\* lines 165-174: the place of the result kept as best after results[1:i]
RECURSIVE best_result(_, _)
best_result(results, i) ==
  IF i = 1 THEN 1
  ELSE IF results[i].y < results[best_result(results, i - 1)].y THEN i
  ELSE best_result(results, i - 1)

\* lines 96-100 and 162: what the evaluation monitor has received when the
\* map returns.  With python_map the cost handed to every nested solver is
\* wrap_function(cost, ExtraArgs, EvaluationMonitor), which gives each
\* evaluation to the monitor; with another map the cost is handed as it is.
RECURSIVE evaluations_mapped(_, _)
evaluations_mapped(map, results) ==
  IF map # "python_map" \/ results = <<>> THEN <<>>
  ELSE results[1].evalmon \o evaluations_mapped(map, Tail(results))

\* the largest number of bins, or of points, of a nested solver
MaxBins == 3

InitNested ==
  /\ \E ndim \in {1, 2} :
       nested \in
         [ solver : {"BatchGridSolver", "ScattershotSolver"},
           map : {"python_map", "ez_map"},
           lower : { [k \in 1..ndim |-> [t |-> "int", v |-> RInt(0)]],
                     [k \in 1..ndim |-> [t |-> "float", v |-> RInt(0)]],
                     [k \in 1..ndim |-> [t |-> "float", v |-> Rat(-1, 2)]] },
           upper : { [k \in 1..ndim |-> [t |-> "int", v |-> RInt(1)]],
                     [k \in 1..ndim |-> [t |-> "int", v |-> RInt(5)]],
                     [k \in 1..ndim |-> [t |-> "float", v |-> RInt(5)]] },
           nbins : { n \in [1..ndim -> 1..MaxBins] :
                       number_of_points(n) <= MaxBins },
           npts : 1..MaxBins,
           bins : {<<>>},
           results : {<<>>},
           bestSolution : {<<>>},
           bestEnergy : {init_popEnergy},
           generations : {0},
           fcalls : {0},
           StepMonitor : {<<>>},
           EvaluationMonitor : {<<>>},
           pc : {"Solve"} ]
  /\ nested.solver = "BatchGridSolver" => nested.npts = 1
  /\ nested.solver = "ScattershotSolver" =>
       \A k \in DOMAIN nested.nbins : nested.nbins[k] = 1
  /\ linear = <<>> /\ solver = <<>>
  /\ InitCompile({<<>>})
  /\ path = "none"
  /\ heap = <<>>
  /\ arg = [p \in Procs |-> 1]
  /\ calls = [p \in Procs |-> 0]
  /\ renaming = NoRenaming
  /\ extracting = NoExtracting

\* Solve(cost, termination, StepMonitor, EvaluationMonitor) of either
\* nested solver, with the results the map returns
NestedSolve ==
  /\ nested # <<>> /\ nested.pc = "Solve"
  /\ \E results \in
         [1..(IF nested.solver = "BatchGridSolver"
              THEN number_of_points(nested.nbins) ELSE nested.npts)
            -> LocalRuns(Len(nested.lower))] :
       nested' = [nested EXCEPT
         !.bins = IF nested.solver = "BatchGridSolver"
                  THEN grid_bins(nested.lower, nested.upper, nested.nbins)
                  ELSE <<>>,
         !.results = results,
         !.bestSolution = results[best_result(results, Len(results))].x,
         !.bestEnergy = RInt(results[best_result(results, Len(results))].y),
         !.generations =
            Len(results[best_result(results, Len(results))].stepmon),
         !.fcalls = Len(results[best_result(results, Len(results))].evalmon),
         !.StepMonitor =
            @ \o results[best_result(results, Len(results))].stepmon,
         !.EvaluationMonitor =
            @ \o evaluations_mapped(nested.map, results)
              \o results[best_result(results, Len(results))].evalmon,
         !.pc = "done"]
  /\ UNCHANGED <<constraints, nvars, path, pc, parsed, built, composed, heap,
                 arg, calls, frames, ins, outs, pen, raised, renaming,
                 extracting, linear, solver>>

SpecNested == InitNested /\ [][NestedSolve]_vars

(***************************************************************************)
(* What a constraint line says, read from the line itself: its relation,   *)
(* its two sides, the variable its left side names and the variables its   *)
(* right side reads.                                                       *)
(***************************************************************************)
\* the relation written at position p of the line, '=' following or not
relation_at(line, p) ==
  IF p < Len(line) /\ line[p + 1] = "="
  THEN [op |-> <<line[p], "=">>, lhs |-> SubSeq(line, 1, p - 1), rhs |-> str_from(line, p + 2)]
  ELSE [op |-> <<line[p]>>, lhs |-> SubSeq(line, 1, p - 1), rhs |-> str_from(line, p + 1)]

relation_of(line) ==
  Let(str_find(line, <<">">>, 1), LAMBDA g :
    Let(str_find(line, <<"<">>, 1), LAMBDA l :
      Let(str_find(line, <<"=">>, 1), LAMBDA e :
        IF g # 0 THEN relation_at(line, g)
        ELSE IF l # 0 THEN relation_at(line, l)
        ELSE IF e # 0 THEN [op |-> <<"=">>, lhs |-> SubSeq(line, 1, e - 1),
                            rhs |-> str_from(line, e + 1)]
        ELSE [op |-> <<>>, lhs |-> line, rhs |-> <<>>])))

\* the index i when the text is the variable xi alone, else -1
variable_index(text) ==
  Let(str_strip(text, Whitespace), LAMBDA v :
    IF Len(v) >= 2 /\ v[1] = "x" /\ py_span(v, 2, Digits) = Len(v) + 1
    THEN int_str(SubSeq(v, 2, Len(v))) ELSE -1)

\* the lines of the text in force as constraints, in declaration order
system_of(text) ==
  Let(nonblank_lines(text), LAMBDA lines :
    [k \in DOMAIN lines |->
       Let(relation_of(lines[k]), LAMBDA r :
         [op |-> r.op, lhs |-> r.lhs, rhs |-> r.rhs,
          target |-> variable_index(r.lhs),
          reads |-> {i \in 0..(nvars - 1) : str_find(r.rhs, <<"x">> \o str_int(i), 1) # 0}])])

\* the value of one side at the point x
side_value(side, x) == py_eval(fix_variables(side, <<"x">>, Len(x)), x)

\* the relation holds at x; with closed, '<' and '>' are read as '<=' and '>='
relation_holds(c, x, closed) ==
  Let(side_value(c.lhs, x), LAMBDA l :
    Let(side_value(c.rhs, x), LAMBDA r :
      /\ l.e = "" /\ r.e = ""
      /\ CASE c.op = <<"=">> -> l.v = r.v
           [] c.op = <<"<", "=">> -> RLe(l.v, r.v)
           [] c.op = <<">", "=">> -> RLe(r.v, l.v)
           [] c.op = <<"<">> -> IF closed THEN RLe(l.v, r.v) ELSE RLt(l.v, r.v)
           [] c.op = <<">">> -> IF closed THEN RLe(r.v, l.v) ELSE RLt(r.v, l.v)
           [] OTHER -> FALSE))

\* every line is a relation with one variable of the point on its left
\* and an expression on its right
WellFormed(system) ==
  \A k \in DOMAIN system :
    /\ system[k].op # <<>> /\ system[k].target \in 0..(nvars - 1)
    /\ side_value(system[k].rhs, <<Zero, Zero, Zero>>).e # "SyntaxError"

\* each right side reads only targets of later-declared constraints, or
\* variables that no constraint targets
ReadsOnlyLater(system) ==
  \A k \in DOMAIN system : \A j \in 1..k : system[j].target \notin system[k].reads

DistinctTargets(system) ==
  \A j, k \in DOMAIN system : j # k => system[j].target # system[k].target

(***************************************************************************)
(* A solver function, and solver functions one after another, as           *)
(* functions of a point value: <<the value returned>>, or <<>> if one      *)
(* raises.                                                                 *)
(***************************************************************************)
solver_value(doc, x) ==
  Let(py_assignment(doc), LAMBDA a :
    Let(py_eval(a.rhs, x), LAMBDA r :
      IF a.e # "" \/ r.e # "" THEN <<>>
      ELSE IF a.kind = "name" THEN <<x>>
      ELSE IF a.i + 1 \notin DOMAIN x THEN <<>>
      ELSE <<[x EXCEPT ![a.i + 1] = r.v]>>))

\* docs[1] first, then docs[2], ...
RECURSIVE solvers_value(_, _)
solvers_value(docs, x) ==
  IF docs = <<>> THEN <<x>>
  ELSE Let(solver_value(docs[1], x), LAMBDA r :
    IF r = <<>> THEN <<>> ELSE solvers_value(Tail(docs), r[1]))

\* the calls of the constraint function that have returned
Returned(p) == DOMAIN outs[p]

ExampleText ==
  str_join(<<"\n">>, << <<"x", "2", " ", "=", " ", "x", "0", "/", "2", ".">>,
                         <<"x", "0", " ", ">", "=", " ", "0", ".">> >>)

C2_Example ==
  /\ constraints = ExampleText /\ 1 \in Returned(1)
  /\ ins[1][1] = <<RInt(-1), RInt(2), RInt(-3)>>
  => outs[1][1] = <<RInt(0), RInt(2), RInt(0)>>

(***************************************************************************)
(* C2, as stated: the example maps [-1, 2, -3] to [0.0, 2, 0.0], and for a *)
(* system in which each right side reads only targets of later-declared    *)
(* constraints or of no constraint, the point returned satisfies every     *)
(* constraint of the system.                                               *)
(***************************************************************************)
C2_ReturnedPointSatisfiesAll ==
  /\ C2_Example
  /\ \E system \in {system_of(constraints)} :
       WellFormed(system) /\ ReadsOnlyLater(system) =>
         \A k \in Returned(1) : \A c \in Range(system) :
           relation_holds(c, outs[1][k], FALSE)

(***************************************************************************)
(* C2, amended: the example maps [-1, 2, -3] to [0.0, 2, 0.0], and for a   *)
(* system whose constraints have pairwise distinct target variables and    *)
(* whose right sides read only targets of later-declared constraints or of *)
(* no constraint, the point returned satisfies every constraint, with '<'  *)
(* and '>' read as '<=' and '>='.                                          *)
(***************************************************************************)
C2_ReturnedPointSatisfiesClosed ==
  /\ C2_Example
  /\ \E system \in {system_of(constraints)} :
       WellFormed(system) /\ ReadsOnlyLater(system) /\ DistinctTargets(system) =>
         \A k \in Returned(1) : \A c \in Range(system) :
           relation_holds(c, outs[1][k], TRUE)

\* a system of two constraints has repaired a point that violated one
C2_Witness ==
  \E system \in {system_of(constraints)} :
    /\ Len(system) = 2
    /\ WellFormed(system) /\ ReadsOnlyLater(system) /\ DistinctTargets(system)
    /\ 1 \in Returned(1)
    /\ \E c \in Range(system) : ~relation_holds(c, ins[1][1], TRUE)
    /\ \A c \in Range(system) : relation_holds(c, outs[1][1], TRUE)

(***************************************************************************)
(* C7, as stated: a call of the constraint function leaves the point       *)
(* object the caller passed unchanged, and a second call with the same     *)
(* object returns what the first returned.                                 *)
(***************************************************************************)
C7_CallerPointUnchanged ==
  /\ frames[1].st = "done" => heap[arg[1]] = ins[1][Len(ins[1])]
  /\ 2 \in Returned(1) => outs[1][2] = outs[1][1]

(***************************************************************************)
(* C8: for a system with no contradictory ordering (pairwise distinct      *)
(* targets, right sides reading only targets of later-declared constraints *)
(* or of no constraint), the constraint function applied to its own result *)
(* returns that result, and a point that satisfies every constraint is     *)
(* returned unchanged.                                                     *)
(***************************************************************************)
C8_IdempotentRepair ==
  \E system \in {system_of(constraints)} :
    WellFormed(system) /\ ReadsOnlyLater(system) /\ DistinctTargets(system) =>
      /\ 2 \in Returned(1) /\ ins[1][2] = outs[1][1] => outs[1][2] = outs[1][1]
      /\ \A k \in Returned(1) :
           (\A c \in Range(system) : relation_holds(c, ins[1][k], TRUE))
             => outs[1][k] = ins[1][k]

\* the function has been applied to its own result, which the first
\* application had to repair
C8_Witness ==
  \E system \in {system_of(constraints)} :
    /\ Len(system) = 2
    /\ WellFormed(system) /\ ReadsOnlyLater(system) /\ DistinctTargets(system)
    /\ 2 \in Returned(1) /\ ins[1][2] = outs[1][1]
    /\ outs[1][1] # ins[1][1]
(***************************************************************************)
(* The penalty path: the lines behind the two tuples of penalty_parser,    *)
(* in the order of the tuples.                                             *)
(***************************************************************************)
AllRelations(system) == \A k \in DOMAIN system : system[k].op # <<>>

\* both sides of every relation have a value at x
Evaluable(system, x) ==
  \A k \in DOMAIN system :
    side_value(system[k].lhs, x).e = "" /\ side_value(system[k].rhs, x).e = ""

inequalities_of(system) == SelectSeq(system, LAMBDA c : c.op # <<>> /\ c.op[1] # "=")
equalities_of(system) == SelectSeq(system, LAMBDA c : c.op = <<"=">>)

\* the penalty parser has returned for the text
PenaltyParsed == path = "penalty" /\ parsed # <<>>

\* the sign convention for the point x, '<' and '>' read as closed or not
SignConvention(x, closed) ==
  \E system \in {system_of(constraints)} :
    AllRelations(system) /\ Evaluable(system, x) =>
      /\ \A k \in DOMAIN parsed[1].ineq :
           \E v \in {py_eval(parsed[1].ineq[k], x)} :
             v.e = "" =>
               IF relation_holds(inequalities_of(system)[k], x, closed)
               THEN RLe(v.v, Zero) ELSE RLt(Zero, v.v)
      /\ \A k \in DOMAIN parsed[1].eq :
           \E v \in {py_eval(parsed[1].eq[k], x)} :
             v.e = "" /\ relation_holds(equalities_of(system)[k], x, closed)
               => v.v = Zero

\* the penalty returned, against the constraints of the text at the point
PenaltyMeasuresViolation(closed) ==
  pen # <<>> =>
    \E system \in {system_of(constraints)} :
      AllRelations(system) /\ Evaluable(system, heap[arg[1]]) =>
        /\ RLe(Zero, pen[1])
        /\ IF \A c \in Range(system) : relation_holds(c, heap[arg[1]], closed)
           THEN pen[1] = Zero ELSE RLt(Zero, pen[1])

(***************************************************************************)
(* C3, as stated: the penalty function is non-negative, exactly 0 at every *)
(* point that satisfies all the constraints as written, and strictly       *)
(* positive at every point that violates one of them.                      *)
(***************************************************************************)
C3_ZeroExactlyAtFeasibility == PenaltyMeasuresViolation(FALSE)

(***************************************************************************)
(* C3, amended: the penalty function is non-negative, exactly 0 at every   *)
(* point that satisfies all the constraints with '<' and '>' read as '<='  *)
(* and '>=', and strictly positive at every other point.                   *)
(***************************************************************************)
C3_ZeroExactlyAtClosedFeasibility == PenaltyMeasuresViolation(TRUE)

\* a positive penalty for a system of two constraints, one of which the
\* point satisfies and one of which it violates
C3_Witness ==
  /\ pen # <<>> /\ RLt(Zero, pen[1])
  /\ \E system \in {system_of(constraints)} :
       /\ AllRelations(system) /\ Evaluable(system, heap[arg[1]])
       /\ Len(system) = 2
       /\ \E c \in Range(system) : ~relation_holds(c, heap[arg[1]], TRUE)
       /\ \E c \in Range(system) : relation_holds(c, heap[arg[1]], TRUE)

(***************************************************************************)
(* C4, as stated: an inequality expression of penalty_parser is <= 0 where *)
(* the original '<' or '>' relation holds and > 0 where it is violated; an *)
(* equality expression is exactly 0 where the original '=' holds.          *)
(***************************************************************************)
C4_SignConvention == PenaltyParsed => SignConvention(heap[arg[1]], FALSE)

(***************************************************************************)
(* C4, amended: an inequality expression of penalty_parser is <= 0 where   *)
(* the original relation holds with '<' and '>' read as '<=' and '>=', and *)
(* > 0 elsewhere (it is 0, not > 0, where the two sides of a strict '<' or *)
(* '>' are equal); an equality expression is exactly 0 where the original  *)
(* '=' holds.                                                              *)
(***************************************************************************)
C4_ClosedSignConvention == PenaltyParsed => SignConvention(heap[arg[1]], TRUE)

\* an expression from a strict inequality evaluates to 0 at the point
C4_Witness ==
  /\ PenaltyParsed
  /\ \E system \in {system_of(constraints)} :
       /\ AllRelations(system) /\ Evaluable(system, heap[arg[1]])
       /\ \E k \in DOMAIN parsed[1].ineq :
            /\ inequalities_of(system)[k].op \in {<<"<">>, <<">">>}
            /\ py_eval(parsed[1].ineq[k], heap[arg[1]]) = [e |-> "", v |-> Zero]

(***************************************************************************)
(* C5, as stated: a non-blank line with none of '>', '<', '=' is reported  *)
(* and skipped: it adds no expression to either tuple of penalty_parser    *)
(* and no assignment to the tuple of constraints_parser, and the other     *)
(* lines of the text are still compiled.                                   *)
(***************************************************************************)
C5_InvalidLineSkipped ==
  parsed # <<>> =>
    \E system \in {system_of(constraints)} :
      \E valid \in {Len(SelectSeq(system, LAMBDA c : c.op # <<>>))} :
        /\ Len(parsed[1].printed) = Len(system) - valid
        /\ path = "penalty" => Len(parsed[1].ineq) + Len(parsed[1].eq) = valid
        /\ path = "constraint" /\ parsed[1].err = "" => Len(parsed[1].parsed) = valid

(***************************************************************************)
(* Which expressions are malformed: not an expression (or statement) of    *)
(* Python, or one that reads a name that is not bound.                     *)
(***************************************************************************)
Malformed(equation) ==
  py_eval(equation, <<Zero, Zero, Zero>>).e \in {"SyntaxError", "NameError"}

MalformedStatement(equation) ==
  \E a \in {py_assignment(equation)} :
    a.e = "SyntaxError" \/ Malformed(a.rhs)

SomeMalformed ==
  /\ parsed # <<>>
  /\ IF path = "penalty"
     THEN \E equation \in Range(parsed[1].ineq) \cup Range(parsed[1].eq) :
            Malformed(equation)
     ELSE \E equation \in Range(parsed[1].parsed) : MalformedStatement(equation)

C9_ConcurrentAsAlone ==
  \A p \in Procs : \A k \in Returned(p) :
    <<outs[p][k]>> = solvers_value(reversed(parsed[1].parsed), ins[p][k])

(***************************************************************************)
(* What the renaming is to give: every occurrence of a name of the list    *)
(* replaced by the marker and the name's position, the text read from the  *)
(* left and the longest name that matches taken at each place.             *)
(***************************************************************************)
\* the position in variables of the longest name that starts at p, 0 for none
longest_at(text, p, variables) ==
  Let({i \in DOMAIN variables : str_startswith(text, p, variables[i])}, LAMBDA found :
    IF found = {} THEN 0
    ELSE CHOOSE i \in found : \A j \in found : Len(variables[j]) <= Len(variables[i]))

RECURSIVE whole_names_replaced(_, _, _, _)
whole_names_replaced(text, p, variables, markers) ==
  IF p > Len(text) THEN <<>>
  ELSE Let(longest_at(text, p, variables), LAMBDA i :
    IF i = 0
    THEN <<text[p]>> \o whole_names_replaced(text, p + 1, variables, markers)
    ELSE markers \o str_int(i - 1)
         \o whole_names_replaced(text, p + Len(variables[i]), variables, markers))

(***************************************************************************)
(* C10, as stated: for any list of distinct names, names that are parts of *)
(* other names included, and any marker, replace_variables replaces every  *)
(* occurrence of the i-th name by the marker followed by i, and never a    *)
(* part of a longer name.                                                  *)
(***************************************************************************)
C10_EveryNameReplacedByItsIndex ==
  renaming.result # <<>> =>
    renaming.result[1] =
      whole_names_replaced(renaming.constraints, 1, renaming.variables, renaming.markers)

(***************************************************************************)
(* C11, as stated: when the requested marker is itself one of the names of *)
(* the list, replace_variables raises nothing and returns the text in      *)
(* which every occurrence of the i-th name is the marker followed by i, no *)
(* token it has put in being rewritten by a later name.                    *)
(***************************************************************************)
C11_CollidingMarkerIsTransparent ==
  ( /\ renaming.result # <<>>
    /\ ~list_or_tuple_or_ndarray(renaming.markers)
    /\ renaming.markers.v \in Range(renaming.variables) )
  => /\ renaming.result[1].e = ""
     /\ renaming.result[1].v =
          whole_names_replaced(renaming.constraints, 1, renaming.variables,
                               renaming.markers.v)

(***************************************************************************)
(* The names a text uses as variables: its identifiers, those that are     *)
(* called (followed by a parenthesis) left out.                            *)
(***************************************************************************)
names_in(text) ==
  { SubSeq(text, p[1], p[2]) :
      p \in { q \in (1..Len(text)) \X (1..Len(text)) :
                /\ q[1] <= q[2]
                /\ \A k \in q[1]..q[2] : text[k] \in Letters \cup Digits
                /\ text[q[1]] \in Letters
                /\ q[1] = 1 \/ text[q[1] - 1] \notin Letters \cup Digits
                /\ q[2] = Len(text) \/ text[q[2] + 1] \notin Letters \cup Digits \cup {"("} } }

(***************************************************************************)
(* C12, as stated: for a list of distinct names, a text that uses exactly  *)
(* these names, and any marker base (the default '$', and a base such as   *)
(* 'x' with names of the form x<digits>, included), get_variables of the   *)
(* renamed text with the marker as base returns marker+i once for each     *)
(* index i of the list, and nothing else.                                  *)
(***************************************************************************)
C12_RoundTrip ==
  ( /\ ~list_or_tuple_or_ndarray(renaming.markers)
    /\ extracting.renamed # <<>>
    /\ names_in(renaming.constraints) = Range(renaming.variables) )
  => /\ extracting.renamed[1].e = ""
     /\ Range(extracting.renamed[1].v) =
          {renaming.markers.v \o str_int(i - 1) : i \in DOMAIN renaming.variables}
     /\ Len(extracting.renamed[1].v) = Len(renaming.variables)

(***************************************************************************)
(* The token at place p of a text: the base followed by all the digits     *)
(* that follow it, <<>> where the base or a digit after it is missing.     *)
(***************************************************************************)
token_at(text, p, base) ==
  IF /\ str_startswith(text, p, base)
     /\ p + Len(base) <= Len(text)
     /\ text[p + Len(base)] \in Digits
  THEN SubSeq(text, p,
         CHOOSE e \in (p + Len(base))..Len(text) :
           /\ \A k \in (p + Len(base))..e : text[k] \in Digits
           /\ e = Len(text) \/ text[e + 1] \notin Digits)
  ELSE <<>>

(***************************************************************************)
(* C13, as stated: get_variables with a base string returns every token    *)
(* base+digits of the text, each once, in the order in which they first    *)
(* occur, and no other string.                                             *)
(***************************************************************************)
C13_TokensInFirstSeenOrder ==
  ( /\ extracting.result # <<>>
    /\ ~list_or_tuple_or_ndarray(extracting.variables) )
  => \E found \in {extracting.result[1].v} :
     \E first \in {[k \in DOMAIN found |->
                     {p \in 1..Len(extracting.constraints) :
                        token_at(extracting.constraints, p, extracting.variables.v)
                          = found[k]}]} :
       /\ extracting.result[1].e = ""
       /\ Range(found) =
            {token_at(extracting.constraints, p, extracting.variables.v) :
               p \in 1..Len(extracting.constraints)} \ {<<>>}
       /\ \A i, j \in DOMAIN found :
            i < j => \E p \in first[i] : \A q \in first[j] : p < q

(***************************************************************************)
(* C14, as stated: get_variables with a list of candidate names returns    *)
(* exactly the candidates that the text uses as variables, in the order of *)
(* the candidate list; the candidates not used as variables are left out.  *)
(***************************************************************************)
C14_CandidatesUsedInListOrder ==
  ( /\ extracting.result # <<>>
    /\ list_or_tuple_or_ndarray(extracting.variables) )
  => /\ extracting.result[1].e = ""
     /\ extracting.result[1].v =
          SelectSeq(extracting.variables.v,
                    LAMBDA name : name \in names_in(extracting.constraints))

(***************************************************************************)
(* The text with every name of the list replaced by the replacement at the *)
(* same position of the other list, the longest name taken at each place.  *)
(***************************************************************************)
RECURSIVE names_substituted(_, _, _, _)
names_substituted(text, p, variables, markers) ==
  IF p > Len(text) THEN <<>>
  ELSE Let(longest_at(text, p, variables), LAMBDA i :
    IF i = 0
    THEN <<text[p]>> \o names_substituted(text, p + 1, variables, markers)
    ELSE markers[i]
         \o names_substituted(text, p + Len(variables[i]), variables, markers))

(***************************************************************************)
(* C15, as stated: replace_variables with a list of replacement names as   *)
(* long as the list of names replaces every occurrence of the i-th name by *)
(* the i-th replacement, for lists of any length (more than ten names      *)
(* included) and any order of the names in the text.                       *)
(***************************************************************************)
C15_EveryNameReplacedByItsReplacement ==
  ( /\ renaming.result # <<>>
    /\ list_or_tuple_or_ndarray(renaming.markers)
    /\ Len(renaming.markers.v) = Len(renaming.variables)
    /\ names_in(renaming.constraints) \subseteq Range(renaming.variables) )
  => /\ renaming.result[1].e = ""
     /\ renaming.result[1].v =
          names_substituted(renaming.constraints, 1, renaming.variables,
                            renaming.markers.v)

(***************************************************************************)
(* What the parsers are to give for a text of relations, one per line: the *)
(* two sides of a line as the parser writes them, stripped, the variables  *)
(* as x[i] and the aggregates under the names of the parser's library.     *)
(***************************************************************************)
OneRelationEach(system) ==
  \A k \in DOMAIN system :
    /\ system[k].op # <<>>
    /\ Range(system[k].lhs \o system[k].rhs) \cap {"<", ">", "="} = {}

sides_of(c, renames) ==
  [lhs |-> rename_calls(fix_variables(str_strip(c.lhs, Whitespace), <<"x">>, nvars), renames),
   rhs |-> rename_calls(fix_variables(str_strip(c.rhs, Whitespace), <<"x">>, nvars), renames)]

(***************************************************************************)
(* C16: penalty_parser returns (inequalities, equalities) where every      *)
(* non-blank line with '<' or '<=' gives 'lhs - (rhs)' among the           *)
(* inequalities, every line with '>' or '>=' gives '-(lhs - (rhs))' among  *)
(* the inequalities, every line with '=' only gives 'lhs - (rhs)' among    *)
(* the equalities, blank lines give nothing, and each tuple keeps the      *)
(* order of its lines; 'x2 = x0/2.' and 'x0 >= 0.' with nvars=3 give       *)
(* (('-(x[0] - (0.))',), ('x[2] - (x[0]/2.)',)).                           *)
(***************************************************************************)
C16_PenaltyExpressions ==
  ( /\ pc = "parsed" /\ path = "penalty"
    /\ OneRelationEach(system_of(constraints)) )
  => \E expected \in
         {[k \in DOMAIN system_of(constraints) |->
             Let(sides_of(system_of(constraints)[k], penalty_renames), LAMBDA s :
               IF system_of(constraints)[k].op[1] = ">"
               THEN <<"-", "(">> \o s.lhs \o <<" ", "-", " ", "(">> \o s.rhs \o <<")", ")">>
               ELSE s.lhs \o <<" ", "-", " ", "(">> \o s.rhs \o <<")">>)]} :
       /\ parsed[1].ineq =
            [k \in DOMAIN SelectSeq(system_of(constraints), LAMBDA c : c.op # <<"=">>) |->
               expected[CHOOSE j \in DOMAIN expected :
                 /\ system_of(constraints)[j].op # <<"=">>
                 /\ Cardinality({i \in 1..j : system_of(constraints)[i].op # <<"=">>}) = k]]
       /\ parsed[1].eq =
            [k \in DOMAIN SelectSeq(system_of(constraints), LAMBDA c : c.op = <<"=">>) |->
               expected[CHOOSE j \in DOMAIN expected :
                 /\ system_of(constraints)[j].op = <<"=">>
                 /\ Cardinality({i \in 1..j : system_of(constraints)[i].op = <<"=">>}) = k]]
       /\ constraints = <<"x", "2", " ", "=", " ", "x", "0", "/", "2", ".", "\n", " ", " ", " ", " ", "x", "0", " ", ">", "=", " ", "0", ".">>
            => /\ parsed[1].ineq = <<<<"-", "(", "x", "[", "0", "]", " ", "-", " ", "(", "0", ".", ")", ")">>>>
               /\ parsed[1].eq = <<<<"x", "[", "2", "]", " ", "-", " ", "(", "x", "[", "0", "]", "/", "2", ".", ")">>>>

\* the example parsed: an '=' line, then an indented '>=' line
C16_Witness ==
  /\ pc = "parsed" /\ path = "penalty"
  /\ OneRelationEach(system_of(constraints))
  /\ constraints = <<"x", "2", " ", "=", " ", "x", "0", "/", "2", ".", "\n", " ", " ", " ", " ", "x", "0", " ", ">", "=", " ", "0", ".">>
  /\ Len(parsed[1].ineq) = 1 /\ Len(parsed[1].eq) = 1

(***************************************************************************)
(* C17: constraints_parser returns exactly one assignment per non-blank    *)
(* line, in the order of the lines: a '>' or '>=' line gives               *)
(* 'lhs = max(rhs, lhs)', a '<' or '<=' line 'lhs = min(rhs, lhs)', an '=' *)
(* line 'lhs = rhs' (the left side not being an aggregate of a subset);    *)
(* 'x2 = x0/2.' and 'x0 >= 0.' with nvars=3 give                           *)
(* ('x[2] = x[0]/2.', 'x[0] = max(0., x[0])').                             *)
(***************************************************************************)
C17_SolverAssignments ==
  ( /\ pc = "parsed" /\ path = "constraint"
    /\ OneRelationEach(system_of(constraints)) )
  => /\ parsed[1].err = ""
     /\ Len(parsed[1].parsed) = Len(system_of(constraints))
     /\ \A k \in DOMAIN system_of(constraints) :
          \E c \in {system_of(constraints)[k]} :
          \E s \in {sides_of(c, constraints_renames)} :
            (\A n \in Range(impose_names) : str_find(s.lhs, n \o <<"(">>, 1) = 0)
            => parsed[1].parsed[k] =
                 CASE c.op[1] = ">" -> s.lhs \o <<" ", "=", " ", "m", "a", "x", "(">> \o s.rhs \o <<",", " ">> \o s.lhs \o <<")">>
                   [] c.op[1] = "<" -> s.lhs \o <<" ", "=", " ", "m", "i", "n", "(">> \o s.rhs \o <<",", " ">> \o s.lhs \o <<")">>
                   [] OTHER -> s.lhs \o <<" ", "=", " ">> \o s.rhs
     /\ constraints = <<"x", "2", " ", "=", " ", "x", "0", "/", "2", ".", "\n", " ", " ", " ", " ", "x", "0", " ", ">", "=", " ", "0", ".">>
          => parsed[1].parsed = <<<<"x", "[", "2", "]", " ", "=", " ", "x", "[", "0", "]", "/", "2", ".">>, <<"x", "[", "0", "]", " ", "=", " ", "m", "a", "x", "(", "0", ".", ",", " ", "x", "[", "0", "]", ")">>>>

\* a '<' line among blank lines and other relations parsed
C17_Witness ==
  /\ pc = "parsed" /\ path = "constraint"
  /\ OneRelationEach(system_of(constraints))
  /\ Len(str_splitlines(constraints)) = 2
  /\ Len(parsed[1].parsed) = 1
  /\ str_find(parsed[1].parsed[1], <<" ", "=", " ", "m", "i", "n", "(">>, 1) # 0

(***************************************************************************)
(* C18: in constraints_parser, a line (of any of the three relations)      *)
(* whose left side is spread, mean, variance, sum or product of a target   *)
(* subset S gives the assignment with S alone on its left and              *)
(* 'impose_<that aggregate>( (R), S )' on its right, R being the right     *)
(* side of the plain rule; one wrapper is applied, that of the aggregate,  *)
(* and a line whose left side is a variable is not wrapped.  Spaces are    *)
(* not compared.                                                           *)
(***************************************************************************)
C18_AggregateImposed ==
  ( /\ pc = "parsed" /\ path = "constraint"
    /\ OneRelationEach(system_of(constraints)) )
  => \A k \in DOMAIN system_of(constraints) :
       \E c \in {system_of(constraints)[k]} :
       \E s \in {sides_of(c, constraints_renames)} :
       \E R \in {CASE c.op[1] = ">" -> <<"m", "a", "x", "(">> \o s.rhs \o <<",", " ">> \o s.lhs \o <<")">>
                   [] c.op[1] = "<" -> <<"m", "i", "n", "(">> \o s.rhs \o <<",", " ">> \o s.lhs \o <<")">>
                   [] OTHER -> s.rhs} :
         /\ \A n \in Range(impose_names) :
              str_startswith(s.lhs, 1, n \o <<"(">>) =>
                \E S \in {str_from(s.lhs, Len(n) + 1)} :
                  SelectSeq(parsed[1].parsed[k], LAMBDA ch : ch # " ") =
                    SelectSeq(S \o <<"=", "i", "m", "p", "o", "s", "e", "_">> \o n \o <<"(", "(">> \o R \o <<")", ",">> \o S \o <<")">>,
                              LAMBDA ch : ch # " ")
         /\ c.target # -1 => str_find(parsed[1].parsed[k], <<"i", "m", "p", "o", "s", "e", "_">>, 1) = 0

\* a '<' line with the spread of a subset on its left, and a line with a
\* variable on its left, parsed
C18_Witness ==
  /\ pc = "parsed" /\ path = "constraint"
  /\ OneRelationEach(system_of(constraints))
  /\ Len(parsed[1].parsed) = 2
  /\ str_find(parsed[1].parsed[1], <<"i", "m", "p", "o", "s", "e", "_", "s", "p", "r", "e", "a", "d", "(", " ", "(", "m", "i", "n", "(">>, 1) # 0
  /\ system_of(constraints)[2].target # -1

(***************************************************************************)
(* The sum of a list of numbers.                                           *)
(***************************************************************************)
RECURSIVE sum_of(_)
sum_of(terms) == IF terms = <<>> THEN Zero ELSE RAdd(terms[1], sum_of(Tail(terms)))

(***************************************************************************)
(* C19: with ptype=None, generate_penalty pairs each condition named       *)
(* 'inequality' by generate_conditions with quadratic_inequality and every *)
(* other condition with quadratic_equality, and the value of the function  *)
(* it returns is the sum of the contributions of all the conditions given, *)
(* nested or not, and so the same for the conditions in another order.     *)
(***************************************************************************)
C19_DefaultKindsAndSum ==
  ( /\ path = "penalty" /\ pc = "composed" )
  => \E flat \in {flatten(built)} :
     \E kinds \in {[k \in DOMAIN flat |->
                     IF flat[k] \in Range(built.v[1].v)
                     THEN "quadratic_inequality" ELSE "quadratic_equality"]} :
       /\ Range(flat) = Range(built.v[1].v) \cup Range(built.v[2].v)
       /\ \A k \in DOMAIN flat : flat[k].name = "inequality" <=> flat[k] \in Range(built.v[1].v)
       /\ composed = generate_penalty(Tuple(flat), List(kinds))
       /\ pen # <<>> =>
            /\ pen[1] = sum_of([k \in DOMAIN flat |->
                          quadratic_term(kinds[k], condition_call(flat[k], heap[arg[1]]).v)])
            /\ penalty_call(generate_penalty(Tuple(reversed(flat)), NoKinds),
                            heap[arg[1]]).v = pen[1]

\* an inequality and an equality, both violated, and the penalty returned
C19_Witness ==
  /\ path = "penalty" /\ pc = "composed" /\ pen # <<>>
  /\ Len(built.v[1].v) = 1 /\ Len(built.v[2].v) = 1
  /\ \A k \in 1..2 :
       quadratic_term(IF k = 1 THEN "quadratic_inequality" ELSE "quadratic_equality",
                      condition_call(built.v[k].v[1], heap[arg[1]]).v) # Zero

(***************************************************************************)
(* C20: a solver compiled from a constraint whose left side is the single  *)
(* variable x[i] returns a point of the length of its input in which every *)
(* component other than i is the input's, and component i is rhs (for      *)
(* '='), max(rhs, x[i]) (for '>' and '>=') or min(rhs, x[i]) (for '<' and  *)
(* '<='), evaluated on the input point; the solver of 'x2 = x0/2.' maps    *)
(* [1, 2, 3] to [1, 2, 0.5].                                               *)
(***************************************************************************)
C20_SolverFrameEffect ==
  [][ ( /\ path = "constraint" /\ OneRelationEach(system_of(constraints))
        /\ frames[1].st \in {"store", "next"} /\ frames'[1].st = "run" )
      => \E c \in {system_of(constraints)[inner_first(frames[1].clo).i + 1]} :
         \E x \in {heap[frames[1].ref]} :
           /\ c.target \in 0..(nvars - 1)
                => \E r \in {side_value(c.rhs, x)} :
                     /\ r.e = ""
                     /\ Len(heap'[frames[1].ref]) = Len(x)
                     /\ \A k \in DOMAIN x :
                          heap'[frames[1].ref][k] =
                            IF k # c.target + 1 THEN x[k]
                            ELSE CASE c.op[1] = ">" -> RMax(r.v, x[k])
                                   [] c.op[1] = "<" -> RMin(r.v, x[k])
                                   [] OTHER -> r.v
           /\ (c.lhs = <<"x", "2", " ">> /\ c.rhs = <<" ", "x", "0", "/", "2", ".">> /\ c.op = <<"=">>)
                => solver_value(inner_first(frames[1].clo).doc,
                                <<RInt(1), RInt(2), RInt(3)>>)
                     = << <<RInt(1), RInt(2), Rat(1, 2)>> >>
    ]_vars

\* the solver of 'x0 >= 0.' has returned [0.0, 2, -3] for [-1, 2, -3], and
\* the solver of 'x2 = x0/2.' has run
C20_Witness ==
  /\ path = "constraint" /\ frames[1].st = "done"
  /\ constraints = ExampleText
  /\ Len(frames[1].ran) = 2
  /\ ins[1][1] = <<RInt(-1), RInt(2), RInt(-3)>>
  /\ outs[1][1] = <<RInt(0), RInt(2), RInt(0)>>

\* the rows of a matrix argument, a one-dimensional one being a single row
rows_of(M) ==
  IF M.t = "none" THEN <<>>
  ELSE IF \A r \in Range(M.v) : r.t # "list" THEN <<M.v>>
  ELSE [i \in DOMAIN M.v |-> M.v[i].v]

\* the entries of a vector argument, flat or nested
entries_of(b) ==
  IF b.t = "none" THEN <<>>
  ELSE IF b.v # <<>> /\ \A r \in Range(b.v) : r.t = "list" THEN b.v[1].v
  ELSE b.v

(***************************************************************************)
(* C21: linear_symbolic(A, b, G, h) returns one line                       *)
(* 'G[i][0]*x0 + ... + G[i][n-1]*x(n-1) <= h[i]' per row of G, in row      *)
(* order, followed by one line 'A[i][0]*x0 + ... + A[i][n-1]*x(n-1) =      *)
(* b[i]' per row of A, in row order: coefficient j multiplies xj, the      *)
(* inequality lines precede the equality lines, and a one-dimensional A or *)
(* G is a single row; the docstring example gives its three lines.         *)
(***************************************************************************)
C21_LinesPerRow ==
  ( /\ linear # <<>> /\ linear.result # <<>>
    /\ linear.result[1].e = ""
    /\ linear.A.t = "none" <=> linear.b.t = "none"
    /\ linear.G.t = "none" <=> linear.h.t = "none" )
  => /\ linear.result[1].v =
          str_join(<<>>,
            [i \in DOMAIN rows_of(linear.G) |->
               str_join(<<" ", "+", " ">>, [j \in DOMAIN rows_of(linear.G)[i] |->
                 py_str(rows_of(linear.G)[i][j]) \o <<"*", "x">> \o str_int(j - 1)])
               \o <<" ", "<", "=", " ">> \o py_str(entries_of(linear.h)[i]) \o <<"\n">>]
            \o
            [i \in DOMAIN rows_of(linear.A) |->
               str_join(<<" ", "+", " ">>, [j \in DOMAIN rows_of(linear.A)[i] |->
                 py_str(rows_of(linear.A)[i][j]) \o <<"*", "x">> \o str_int(j - 1)])
               \o <<" ", "=", " ">> \o py_str(entries_of(linear.b)[i]) \o <<"\n">>])
     /\ ( /\ Len(rows_of(linear.A)) = 2 /\ rows_of(linear.A)[1][1].t = "float"
          /\ Len(rows_of(linear.G)) = 1 /\ Len(rows_of(linear.G)[1]) = 3
          /\ Len(entries_of(linear.h)) = 1 /\ entries_of(linear.b)[1].t = "float" )
        => linear.result[1].v =
             <<"1", ".", "0", "*", "x", "0", " ", "+", " ", "0", ".", "0", "*", "x", "1", " ", "+", " ", "0", ".", "0", "*", "x", "2", " ", "<", "=", " ", "5", ".", "0", "\n">>
             \o <<"3", ".", "0", "*", "x", "0", " ", "+", " ", "4", ".", "0", "*", "x", "1", " ", "+", " ", "5", ".", "0", "*", "x", "2", " ", "=", " ", "0", ".", "0", "\n">>
             \o <<"1", ".", "0", "*", "x", "0", " ", "+", " ", "6", ".", "0", "*", "x", "1", " ", "+", " ", "-", "9", ".", "0", "*", "x", "2", " ", "=", " ", "0", ".", "0", "\n">>

\* the docstring example: a one-dimensional G of three coefficients and a
\* two-row A have given three lines
C21_Witness ==
  /\ linear # <<>> /\ linear.result # <<>>
  /\ linear.result[1].e = ""
  /\ Len(rows_of(linear.A)) = 2 /\ rows_of(linear.A)[1][1].t = "float"
  /\ Len(rows_of(linear.G)) = 1 /\ Len(rows_of(linear.G)[1]) = 3
  /\ Len(entries_of(linear.h)) = 1 /\ Len(entries_of(linear.b)) = 2
  /\ entries_of(linear.b)[1].t = "float"
  /\ Len(str_splitlines(linear.result[1].v)) = 3

(***************************************************************************)
(* C22: linear_symbolic fails with an error, and returns no (partial)      *)
(* constraint text, whenever the number of rows of A differs from the      *)
(* number of entries of b, or the number of rows of G differs from the     *)
(* number of entries of h; it succeeds whenever both pairs are consistent. *)
(***************************************************************************)
C22_RejectsInconsistentRows ==
  ( /\ linear # <<>> /\ linear.result # <<>>
    /\ linear.A.t = "none" <=> linear.b.t = "none"
    /\ linear.G.t = "none" <=> linear.h.t = "none" )
  => /\ linear.result[1].e # ""
          <=> \/ Len(rows_of(linear.A)) # Len(entries_of(linear.b))
              \/ Len(rows_of(linear.G)) # Len(entries_of(linear.h))
     /\ linear.result[1].e # "" => linear.result[1].v = <<>>

\* A and b agree, G has three rows for the two entries of h: an error
C22_Witness ==
  /\ linear # <<>> /\ linear.result # <<>>
  /\ Len(rows_of(linear.A)) = 2 /\ Len(entries_of(linear.b)) = 2
  /\ Len(rows_of(linear.G)) = 3 /\ Len(entries_of(linear.h)) = 2
  /\ linear.result[1].e = "Exception"

(***************************************************************************)
(* C25: both parsers choose the relation of a line by testing for '>'      *)
(* first, then '<', then '=', and split the line at the first occurrence   *)
(* of the chosen operator: lhs is the text before that occurrence and rhs  *)
(* the whole remainder after it (less a directly following '='), also when *)
(* the chosen operator occurs more than once in the line, as in            *)
(* 'x0 < x1 < x2'.                                                         *)
(***************************************************************************)
C25_SplitAtFirstOccurrence ==
  pc = "parsed"
  => \A k \in DOMAIN system_of(constraints) :
       \E c \in {system_of(constraints)[k]} :
         IF path = "penalty"
         THEN \E s \in {sides_of(c, penalty_renames)} :
                (IF c.op[1] = ">"
                 THEN <<"-", "(">> \o s.lhs \o <<" ", "-", " ", "(">> \o s.rhs \o <<")", ")">>
                 ELSE s.lhs \o <<" ", "-", " ", "(">> \o s.rhs \o <<")">>)
                  \in Range(IF c.op = <<"=">> THEN parsed[1].eq ELSE parsed[1].ineq)
         ELSE \E s \in {sides_of(c, constraints_renames)} :
                (\A n \in Range(impose_names) : str_find(s.lhs, n \o <<"(">>, 1) = 0)
                => parsed[1].parsed[k] =
                     CASE c.op[1] = ">" -> s.lhs \o <<" ", "=", " ", "m", "a", "x", "(">> \o s.rhs \o <<",", " ">> \o s.lhs \o <<")">>
                       [] c.op[1] = "<" -> s.lhs \o <<" ", "=", " ", "m", "i", "n", "(">> \o s.rhs \o <<",", " ">> \o s.lhs \o <<")">>
                       [] OTHER -> s.lhs \o <<" ", "=", " ">> \o s.rhs

(***************************************************************************)
(* The text with every token x<digits> replaced, as a whole, by            *)
(* 'x[<digits>]'.                                                          *)
(***************************************************************************)
RECURSIVE tokens_indexed(_, _)
tokens_indexed(text, p) ==
  IF p > Len(text) THEN <<>>
  ELSE Let(token_at(text, p, <<"x">>), LAMBDA token :
    IF token = <<>> THEN <<text[p]>> \o tokens_indexed(text, p + 1)
    ELSE <<"x", "[">> \o Tail(token) \o <<"]">> \o tokens_indexed(text, p + Len(token)))

(***************************************************************************)
(* C26: in penalty_parser and constraints_parser, for any dimension ndim   *)
(* (inferred as the largest index + 1, or given as nvars, more than ten    *)
(* included) and any line whose tokens all have an index below ndim, every *)
(* token x<i> is replaced by 'x[i]' for its full index i, 'x10' becoming   *)
(* 'x[10]' and never 'x[1]0': the parser gives what it gives for the text  *)
(* in which each whole token has been replaced.                            *)
(***************************************************************************)
C26_WholeTokensIndexed ==
  ( /\ pc = "parsed"
    /\ nvars # None =>
         \A p \in 1..Len(constraints) :
           token_at(constraints, p, <<"x">>) # <<>>
           => int_str(Tail(token_at(constraints, p, <<"x">>))) < nvars )
  => /\ path = "penalty"
          => parsed[1] = penalty_parser(tokens_indexed(constraints, 1), Str(<<"x">>), 0)
     /\ path = "constraint"
          => parsed[1] = constraints_parser(tokens_indexed(constraints, 1), Str(<<"x">>), 0)
     /\ constraints = <<"x", "1", " ", "<", " ", "x", "1", "0">>
          => \/ path = "penalty" /\ parsed[1].ineq = << <<"x", "[", "1", "]", " ", "-", " ", "(", "x", "[", "1", "0", "]", ")">> >>
             \/ path = "constraint" /\ parsed[1].parsed = << <<"x", "[", "1", "]", " ", "=", " ", "m", "i", "n", "(", "x", "[", "1", "0", "]", ",", " ", "x", "[", "1", "]", ")">> >>

\* 'x11 > x1*x10' parsed with the dimension inferred from it
C26_Witness ==
  /\ pc = "parsed" /\ path = "penalty" /\ nvars = None
  /\ constraints = <<"x", "1", "1", " ", ">", " ", "x", "1", "*", "x", "1", "0">>
  /\ parsed[1].ineq = << <<"-", "(", "x", "[", "1", "1", "]", " ", "-", " ", "(", "x", "[", "1", "]", "*", "x", "[", "1", "0", "]", ")", ")">> >>

\* the number of steps of a composed function
RECURSIVE steps_of(_)
steps_of(f) == IF f.kind \in {"zero", "identity"} THEN 0 ELSE 1 + steps_of(f.f)

(***************************************************************************)
(* C30: generate_penalty and generate_constraint enforce every supplied    *)
(* condition or solver: with an explicit list of kinds the composed        *)
(* function has one step for each of the flattened conditions, a list of   *)
(* another length being rejected and never leaving trailing conditions out *)
(* of the composition.                                                     *)
(***************************************************************************)
C30_OneStepPerCondition ==
  pc = "composed" => steps_of(composed) = Len(flatten(built))

\* C23: what fmin returns has warnflag 1 when the evaluations have reached
\* maxfun, whether or not the iterations have reached maxiter as well,
\* warnflag 2 when the evaluations are below maxfun and the iterations have
\* reached maxiter, and warnflag 0 otherwise.
C23_WarnflagOfLimits ==
  (solver # <<>> /\ solver.returned # <<>>) =>
    /\ solver.returned[1].fcalls >= solver.maxfun
         => solver.returned[1].warnflag = 1
    /\ (solver.returned[1].fcalls < solver.maxfun
        /\ solver.returned[1].iterations >= solver.maxiter)
         => solver.returned[1].warnflag = 2
    /\ (solver.returned[1].fcalls < solver.maxfun
        /\ solver.returned[1].iterations < solver.maxiter)
         => solver.returned[1].warnflag = 0

\* fmin has returned with both limits reached
C23_Witness ==
  /\ solver # <<>> /\ solver.returned # <<>>
  /\ solver.returned[1].fcalls >= solver.maxfun
  /\ solver.returned[1].iterations >= solver.maxiter
  /\ solver.returned[1].warnflag = 1

\* C28: with the identity constraints, after every Step made with a step
\* monitor that was not empty the energies are stored in non-decreasing
\* order, so popEnergy[0] is the least of them, the best vertex and its
\* energy are the ones logged, and the energy logged by a Step is never
\* above the energy logged by the Step before it, whichever move was made.
C28_SortedAndNeverWorse ==
  (solver # <<>> /\ solver.constraints = "identity"
   /\ Len(solver.stepmon) >= 2) =>
    /\ \A k \in 2..Len(solver.popEnergy) :
         ~RLt(solver.popEnergy[k], solver.popEnergy[k - 1])
    /\ solver.stepmon[Len(solver.stepmon)] =
         [x |-> solver.population[1], y |-> solver.popEnergy[1]]
    /\ \A i \in 2..Len(solver.stepmon) :
         ~RLt(solver.stepmon[i - 1].y, solver.stepmon[i].y)

\* a shrink made with the identity constraints, more than one vertex
\* replaced and the simplex sorted again
C28_Witness ==
  /\ solver # <<>> /\ solver.constraints = "identity"
  /\ solver.move = "shrink"
  /\ Len(solver.stepmon) >= 3
  /\ RLt(solver.popEnergy[1], solver.popEnergy[Len(solver.popEnergy)])

\* C29: with any constraints and any strict range, after every Step each
\* stored energy of a vertex that has been evaluated is the cost of the
\* vertex stored with it.
C29_EnergyIsCostOfVertex ==
  (solver # <<>> /\ solver.stepmon # <<>>) =>
    \A k \in DOMAIN solver.popEnergy :
      solver.popEnergy[k] # init_popEnergy =>
        solver.popEnergy[k] = cost_call(solver.cost, solver.population[k])

\* C24: BatchGridSolver.Solve starts from the centres of the bins: in each
\* dimension i the start coordinates are lower[i] + (j+0.5)*w for j from 0
\* to nbins[i]-1, with w the exact width (upper[i]-lower[i])/nbins[i]; they
\* are pairwise distinct and lie strictly between lower[i] and upper[i], for
\* bounds of type int as for bounds of type float.
C24_BinCentres ==
  (nested # <<>> /\ nested.pc = "done" /\ nested.solver = "BatchGridSolver") =>
    \A i \in DOMAIN nested.nbins :
      /\ Len(nested.bins[i]) = nested.nbins[i]
      /\ \A j \in 1..nested.nbins[i] :
           /\ nested.bins[i][j] =
                RAdd(nested.lower[i].v,
                     RMul(Rat(2 * j - 1, 2),
                          RMul(RSub(nested.upper[i].v, nested.lower[i].v),
                               Rat(1, nested.nbins[i]))))
           /\ RLt(nested.lower[i].v, nested.bins[i][j])
           /\ RLt(nested.bins[i][j], nested.upper[i].v)
           /\ \A h \in 1..nested.nbins[i] :
                h # j => nested.bins[i][h] # nested.bins[i][j]

\* C27: after Solve, bestEnergy is the least energy of the results,
\* bestSolution is the parameters of the first result in map order with
\* that energy, and the step monitor and the evaluation monitor hold that
\* result's history, in order, and nothing else.
C27_BestAndItsHistory ==
  (nested # <<>> /\ nested.pc = "done") =>
    \E b \in DOMAIN nested.results :
      /\ \A i \in DOMAIN nested.results :
           /\ nested.results[b].y <= nested.results[i].y
           /\ i < b => nested.results[b].y < nested.results[i].y
      /\ nested.bestEnergy = RInt(nested.results[b].y)
      /\ nested.bestSolution = nested.results[b].x
      /\ nested.StepMonitor = nested.results[b].stepmon
      /\ nested.EvaluationMonitor = nested.results[b].evalmon
====
